---------------------------- MODULE Spec2Model ----------------------------
(***************************************************************************)
(* Model of the observational-memory reflection pipeline                   *)
(* (src/src/observational_memory/reflect.py, observe.py).                   *)
(*                                                                         *)
(* A text is a sequence of tokens.  A token stands for a run of characters *)
(* that the regular expressions of the code treat as a unit:               *)
(*   NL      "\n"                       SP      " "                        *)
(*   H       "# Observations"           T       "# Reflections"            *)
(*   D(d)    "## YYYY-MM-DD" of day d   S(n)    "## <named section n>"     *)
(*   B(n)    n characters of body text  P       a line of prose            *)
(*   U(t)    "*Last updated: <t>*"                                          *)
(*   R(d)    "*Last reflected: <day d>*"                                    *)
(*   RT(d)   "*Last reflected: <day d> HH:MM UTC*"                          *)
(*   RBAD    "*Last reflected: unknown*"  (does not match the regex)        *)
(* Calendar dates are day numbers: the code compares "YYYY-MM-DD" strings, *)
(* whose lexicographic order is the order of the days.                     *)
(***************************************************************************)
EXTENDS Integers, Sequences, FiniteSets, TLC

VARIABLES
    today,              \* current UTC day (datetime.now(timezone.utc))
    observations_file,  \* config.observations_path: [exists, text]
    reflections_file,   \* config.reflections_path:  [exists, text]
    search_backend,     \* config.search_backend
    index,              \* what the search index was last built from
    pc,                 \* position of the Reflector run
    dry_run,            \* run_reflector's dry_run argument
    raw_observations,   \* run_reflector local
    reflections,        \* run_reflector local
    observations,       \* run_reflector local (filtered)
    chunks,             \* _reflect_chunked local (<<observations>> in a single pass)
    mode,               \* "single" | "chunked" | "none"
    running_reflections,\* _reflect_chunked local
    calls,              \* oracle calls of the current run, in order
    result,             \* [some, text]: what run_reflector returned last
    runs,               \* number of Reflector runs started
    writes,             \* number of writes by the Observer and by install
    outcome,            \* how the last Reflector run ended
    chIn, chOut, chDone,\* _chunk_observations applied to an input
    stIn, stOut, stDone,\* _stamp_timestamps applied to an input
    stReflected, stAgain, \* the reflected value used; the result stamped again
    trIn, trOut, trDone,\* _trim_old_observations applied to an input
    folded,             \* the Date Sections sent to the oracle by Reflector runs that wrote
    csIn, csLoaded, csStep, \* save_cursor and load_cursor applied to an input
    cursor_file,        \* config.cursor_path: [exists, text]
    transcripts,        \* the entries of the Claude transcript and of the Codex session
    min_messages,       \* config.min_messages
    entry,              \* the Observer entry point that ran last
    odry,               \* its dry_run argument
    ocalls,             \* its oracle calls, in order
    oresult,            \* what it returned
    oruns,              \* number of Observer runs
    command             \* the locals of the backfill command (cli.py:90-201)

vars == <<today, observations_file, reflections_file, search_backend, index, pc, dry_run,
          raw_observations, reflections, observations, chunks, mode,
          running_reflections, calls, result, runs, writes, outcome,
          chIn, chOut, chDone, stIn, stOut, stDone, stReflected, stAgain, trIn, trOut, trDone, folded,
          csIn, csLoaded, csStep,
          cursor_file, transcripts, min_messages, entry, odry, ocalls, oresult, oruns,
          command>>

pipeVars == <<today, observations_file, reflections_file, search_backend, index, pc, dry_run,
          raw_observations, reflections, observations, chunks, mode,
          running_reflections, calls, result, runs, writes, outcome>>
chunkVars == <<chIn, chOut, chDone>>
stampVars == <<stIn, stOut, stDone, stReflected, stAgain>>
trimVars == <<trIn, trOut, trDone>>
cursorVars == <<csIn, csLoaded, csStep>>
observerVars == <<cursor_file, transcripts, min_messages, entry, odry, ocalls, oresult, oruns,
                  command>>

----------------------------------------------------------------------------
(* Program constants *)

\* reflect.py:16  _CHARS_PER_TOKEN = 3.5, kept as the fraction 35/10
CharsPerTokenNum == 35
CharsPerTokenDen == 10
\* reflect.py:18
MaxInputTokens == 30000
\* config.py:60
observation_retention_days == 7
\* reflect.py:278-282, length of the fallback reflector prompt
SystemPromptLen == 184

(* Bounds of the model *)
StartDay == 10
\* observer writes, reflector runs and midnights in one behaviour
MaxOps == 4
MaxSections == 3

----------------------------------------------------------------------------
(* Tokens and texts *)

Tok(k, v) == [k |-> k, v |-> v]
NL == Tok("NL", 0)
SP == Tok("SP", 0)
H == Tok("H", 0)
T == Tok("T", 0)
TLong == Tok("T", 1)
P == Tok("P", 0)
RBAD == Tok("RBAD", 0)
D(d) == Tok("D", d)
S(n) == Tok("S", n)
B(n) == Tok("B", n)
U(t) == Tok("U", t)
UNever == Tok("U", 0 - 1)
R(d) == Tok("R", d)
RT(d) == Tok("RT", d)

\* len() of the n-th section heading of the reflections document, as named
\* in the template of cli.py:335-341
SectionTitleLen(n) ==
    CASE n = 2 -> 18
      [] n = 3 -> 25
      [] n = 4 -> 31
      [] n = 5 -> 22
      [] n = 7 -> 10
      [] OTHER -> 16

\* len() of the characters a token stands for
TokLen(t) ==
    CASE t.k = "NL" -> 1
      [] t.k = "SP" -> 1
      [] t.k = "H" -> 14
      [] t.k = "T" -> IF t.v = 1 THEN 32 ELSE 13
      [] t.k = "P" -> 29
      [] t.k = "D" -> 13
      [] t.k = "S" -> SectionTitleLen(t.v)
      [] t.k = "B" -> t.v
      [] t.k = "U" -> IF t.v < 0 THEN 21 ELSE 36
      [] t.k = "R" -> 28
      [] t.k = "RT" -> 38
      [] t.k = "RBAD" -> 25

RECURSIVE StrLen(_)
StrLen(s) == IF s = <<>> THEN 0 ELSE TokLen(Head(s)) + StrLen(Tail(s))

IsSpace(t) == t.k \in {"NL", "SP"}

RECURSIVE lstrip(_)
lstrip(s) == IF s # <<>> /\ IsSpace(Head(s)) THEN lstrip(Tail(s)) ELSE s

RECURSIVE rstrip(_)
rstrip(s) ==
    IF s # <<>> /\ IsSpace(s[Len(s)]) THEN rstrip(SubSeq(s, 1, Len(s) - 1)) ELSE s

strip(s) == lstrip(rstrip(s))

RECURSIVE Concat(_)
Concat(ss) == IF ss = <<>> THEN <<>> ELSE Head(ss) \o Concat(Tail(ss))

Min(X) == CHOOSE x \in X : \A y \in X : x <= y
Max(X) == CHOOSE x \in X : \A y \in X : x >= y

\* "^" with re.MULTILINE: position i is the start of a line
LineStart(s, i) == i = 1 \/ s[i - 1] = NL
\* "$" with re.MULTILINE: position i is the end of a line
LineEnd(s, i) == i = Len(s) \/ s[i + 1] = NL

\* A sub-sequence replaced by another text (re.sub of one match)
Splice(s, i, new) == SubSeq(s, 1, i - 1) \o new \o SubSeq(s, i + 1, Len(s))

----------------------------------------------------------------------------
(* Regular expressions of reflect.py *)

\* reflect.py:150 r"(?=^## \d{4}-\d{2}-\d{2})": a split point before every
\* date header that starts a line
IsDateHeaderAt(s, i) == s[i].k = "D" /\ LineStart(s, i)

SplitPoints(s) == {i \in 1..Len(s) : IsDateHeaderAt(s, i)}

\* the split point that follows i, or the end of the text
NextPoint(s, i) ==
    LET later == {j \in SplitPoints(s) : j > i}
    IN  IF later = {} THEN Len(s) + 1 ELSE Min(later)

RECURSIVE PiecesFrom(_, _)
PiecesFrom(s, i) ==
    IF i > Len(s) THEN <<>>
    ELSE <<SubSeq(s, i, NextPoint(s, i) - 1)>> \o PiecesFrom(s, NextPoint(s, i))

\* re.split(...): the text before the first split point (possibly empty),
\* then one piece per date header
SplitDateSections(s) ==
    IF SplitPoints(s) = {} THEN <<s>>
    ELSE <<SubSeq(s, 1, Min(SplitPoints(s)) - 1)>> \o PiecesFrom(s, Min(SplitPoints(s)))

\* re.match(r"## (\d{4}-\d{2}-\d{2})", section.strip())
IsDateSection(section) == strip(section) # <<>> /\ Head(strip(section)).k = "D"
SectionDate(section) == Head(strip(section)).v

NoDate == [some |-> FALSE, d |-> 0]
SomeDate(d) == [some |-> TRUE, d |-> d]

\* _LAST_REFLECTED_RE: a whole line "*Last reflected: YYYY-MM-DD<anything>*";
\* the mutant wants the date alone
LastReflectedAt_mut(s, i) == s[i].k = "R" /\ LineStart(s, i) /\ LineEnd(s, i)
LastReflectedAt(s, i) == s[i].k \in {"R", "RT"} /\ LineStart(s, i) /\ LineEnd(s, i)
\* _LAST_UPDATED_RE: a whole line "*Last updated:<anything>*"
LastUpdatedAt(s, i) == s[i].k = "U" /\ LineStart(s, i) /\ LineEnd(s, i)

ReflectedMatches(s) == {i \in 1..Len(s) : LastReflectedAt(s, i)}
UpdatedMatches(s) == {i \in 1..Len(s) : LastUpdatedAt(s, i)}

\* reflect.py:179-186; the mutant takes the current day for a missing line
_parse_last_reflected_mut(refl) ==
    IF ReflectedMatches(refl) = {} THEN SomeDate(today)
    ELSE SomeDate(refl[Min(ReflectedMatches(refl))].v)
_parse_last_reflected(refl) ==
    IF ReflectedMatches(refl) = {} THEN NoDate
    ELSE SomeDate(refl[Min(ReflectedMatches(refl))].v)

\* the header of the loops at reflect.py:155-159 and 202-208: the last piece
\* that is not a date section
RECURSIVE HeaderOf(_, _)
HeaderOf(pieces, header) ==
    IF pieces = <<>> THEN header
    ELSE HeaderOf(Tail(pieces), IF IsDateSection(Head(pieces)) THEN header ELSE Head(pieces))

KeepFrom_mut(section, since) == SectionDate(section) > since
KeepFrom(section, since) == SectionDate(section) >= since

_filter_new_observations(obs, since_date) ==
    IF ~since_date.some THEN obs
    ELSE LET sections == SplitDateSections(obs)
             kept == SelectSeq(sections,
                        LAMBDA x : IsDateSection(x) /\ KeepFrom(x, since_date.d))
         IN  IF kept = <<>> THEN <<>>
             ELSE HeaderOf(sections, <<>>) \o Concat(kept)

_extract_latest_observation_date(obs) ==
    IF SplitPoints(obs) = {} THEN NoDate
    ELSE SomeDate(Max({obs[i].v : i \in SplitPoints(obs)}))

----------------------------------------------------------------------------
(* _chunk_observations, reflect.py:140-176 *)

\* reflect.py:147 int(_MAX_INPUT_TOKENS * _CHARS_PER_TOKEN * 0.6)
budget_chars == (MaxInputTokens * CharsPerTokenNum * 6) \div (CharsPerTokenDen * 10)

\* reflect.py:168: the current chunk is closed before this section
MustFlush_mut(current_chunk, section) ==
    StrLen(section) > budget_chars /\ strip(current_chunk) # <<>>
MustFlush(current_chunk, section) ==
    StrLen(current_chunk) + StrLen(section) > budget_chars /\ strip(current_chunk) # <<>>

\* reflect.py:171
AddSection_mut(current_chunk, section) == section
AddSection(current_chunk, section) == current_chunk \o section

\* the loop at reflect.py:167-171; returns <<chunks, current_chunk>>
RECURSIVE ChunkLoop(_, _, _, _)
ChunkLoop(date_sections, header, chunks_, current_chunk) ==
    IF date_sections = <<>> THEN <<chunks_, current_chunk>>
    ELSE LET section == Head(date_sections)
         IN  IF MustFlush(current_chunk, section)
             THEN ChunkLoop(Tail(date_sections), header,
                            Append(chunks_, current_chunk), AddSection(header, section))
             ELSE ChunkLoop(Tail(date_sections), header,
                            chunks_, AddSection(current_chunk, section))

_chunk_observations(obs) ==
    LET sections == SplitDateSections(obs)
        header == HeaderOf(sections, <<>>)
        date_sections == SelectSeq(sections, IsDateSection)
        loop == ChunkLoop(date_sections, header, <<>>, header)
        out == IF strip(loop[2]) # <<>> THEN Append(loop[1], loop[2]) ELSE loop[1]
    IN  IF date_sections = <<>> THEN <<obs>>
        ELSE IF out # <<>> THEN out ELSE <<obs>>

----------------------------------------------------------------------------
(* _stamp_timestamps, reflect.py:226-260 *)

\* reflect.py:233: f"*Last reflected: {reflected}*"; reflected is a date, or
\* a "YYYY-MM-DD HH:MM UTC" time (run_reflector's fallback now_utc)
ReflectedLine(reflected) == IF reflected.time THEN RT(reflected.d) ELSE R(reflected.d)

\* re.sub(..., count=1): the first match is replaced
SubFirst(s, matches, new) == IF matches = {} THEN s ELSE Splice(s, Min(matches), new)

\* reflect.py:251 re.match(r"(#[^\n]*\n)", reflections): the text starts with
\* "#" and its first line is terminated
TitleMatch(s) ==
    /\ s # <<>>
    /\ Head(s).k \in {"H", "T", "D", "S"}
    /\ \E i \in 1..Len(s) : s[i] = NL
TitleEnd(s) == Min({i \in 1..Len(s) : s[i] = NL})

\* reflect.py:249-258: no timestamp line at all
InsertAfterTitle_mut(s, updated_line, reflected_line) ==
    IF TitleMatch(s)
    THEN SubSeq(s, 1, TitleEnd(s))
            \o <<NL, updated_line, NL, reflected_line, NL>>
            \o SubSeq(s, TitleEnd(s) + 2, Len(s))
    ELSE s
InsertAfterTitle(s, updated_line, reflected_line) ==
    IF TitleMatch(s)
    THEN SubSeq(s, 1, TitleEnd(s))
            \o <<NL, updated_line, NL, reflected_line, NL>>
            \o SubSeq(s, TitleEnd(s) + 1, Len(s))
    ELSE s

\* reflect.py:226-260; the mutant puts the inserted "Last reflected" line
\* before the "Last updated" line
_stamp_timestamps_mut(refl, updated, reflected) ==
    LET updated_line == U(updated)
        reflected_line == ReflectedLine(reflected)
        has_updated == UpdatedMatches(refl) # {}
        has_reflected == ReflectedMatches(refl) # {}
        r1 == IF has_updated
              THEN SubFirst(refl, UpdatedMatches(refl), <<updated_line>>) ELSE refl
        r2 == IF has_reflected
              THEN SubFirst(r1, ReflectedMatches(r1), <<reflected_line>>) ELSE r1
    IN  IF has_reflected THEN r2
        ELSE IF has_updated \/ UpdatedMatches(r2) # {}
             THEN SubFirst(r2, UpdatedMatches(r2), <<reflected_line, NL, updated_line>>)
             ELSE InsertAfterTitle(r2, updated_line, reflected_line)
_stamp_timestamps(refl, updated, reflected) ==
    LET updated_line == U(updated)
        reflected_line == ReflectedLine(reflected)
        has_updated == UpdatedMatches(refl) # {}
        has_reflected == ReflectedMatches(refl) # {}
        r1 == IF has_updated
              THEN SubFirst(refl, UpdatedMatches(refl), <<updated_line>>) ELSE refl
        r2 == IF has_reflected
              THEN SubFirst(r1, ReflectedMatches(r1), <<reflected_line>>) ELSE r1
    IN  IF has_reflected THEN r2
        ELSE IF has_updated \/ UpdatedMatches(r2) # {}
             THEN SubFirst(r2, UpdatedMatches(r2), <<updated_line, NL, reflected_line>>)
             ELSE InsertAfterTitle(r2, updated_line, reflected_line)

----------------------------------------------------------------------------
(* Inputs of the pure functions *)

MaxLines == 3
StampNow == StartDay + 2
StampDay == StartDay - 1

\* a Date Section "## <d>\n\n<n characters>\n\n"
Section(d, n) == <<D(d), NL, NL, B(n), NL, NL>>

\* body sizes: small, large, the largest that fits a chunk together with the
\* "# Observations\n\n" header and a small section, one more than that, and
\* over the budget alone
SectionSizes == {20, 40000, budget_chars - 70, budget_chars - 69, budget_chars}
Headers == {<<>>, <<NL>>, <<H, NL, NL>>}

\* sizes[j] is the body size of the j-th section, dated j
SectionsOf(sizes) == Concat([j \in 1..Len(sizes) |-> Section(j, sizes[j])])

SizeSeqs == UNION {[1..n -> SectionSizes] : n \in 0..MaxSections}
ChunkInputs == {h \o SectionsOf(sz) : h \in Headers, sz \in SizeSeqs}

\* contents of one line of an oracle output
LineKinds == {<<>>, <<T>>, <<P>>, <<U(0)>>, <<U(0), SP>>, <<R(1)>>, <<RBAD>>,
              <<S(1)>>, <<B(20)>>}

RECURSIVE JoinLines(_)
JoinLines(ls) ==
    IF ls = <<>> THEN <<>>
    ELSE IF Len(ls) = 1 THEN Head(ls)
    ELSE Head(ls) \o <<NL>> \o JoinLines(Tail(ls))

LineSeqs == UNION {[1..n -> LineKinds] : n \in 0..MaxLines}
StampInputs == {JoinLines(ls) \o e : ls \in LineSeqs, e \in {<<>>, <<NL>>}}

\* config.py:64-66 and search/__init__.py:36-59
SearchBackends == {"bm25", "qmd"}

PipeIdle ==
    /\ today = StartDay
    /\ observations_file = [exists |-> FALSE, text |-> <<>>]
    /\ reflections_file = [exists |-> FALSE, text |-> <<>>]
    /\ search_backend \in SearchBackends
    /\ index = [built |-> FALSE, obs |-> <<>>, refl |-> <<>>]
    /\ pc = "idle"
    /\ dry_run = FALSE
    /\ raw_observations = <<>>
    /\ reflections = <<>>
    /\ observations = <<>>
    /\ chunks = <<>>
    /\ mode = "none"
    /\ running_reflections = <<>>
    /\ calls = <<>>
    /\ result = [some |-> FALSE, text |-> <<>>]
    /\ runs = 0
    /\ writes = 0
    /\ outcome = "none"

ChunkIdle == chIn = <<>> /\ chOut = <<>> /\ chDone = FALSE
NoReflected == [d |-> 0, time |-> FALSE]
StampIdle ==
    /\ stIn = <<>> /\ stOut = <<>> /\ stDone = FALSE
    /\ stReflected = NoReflected /\ stAgain = [some |-> FALSE, text |-> <<>>]
TrimIdle ==
    /\ trIn = [exists |-> FALSE, text |-> <<>>]
    /\ trOut = [exists |-> FALSE, text |-> <<>>]
    /\ trDone = FALSE
    /\ folded = {}
CursorIdle ==
    /\ csIn = <<>>
    /\ csLoaded = [ok |-> TRUE, dict |-> <<>>]
    /\ csStep = "idle"
\* the backfill command is not running: no transcript list, no counters.
\* Besides the locals of the command the record keeps which transcripts the
\* run processed (handled) and skipped, the ones whose last processing raised
\* (failed) and those of them at the start of the run (before), how the run
\* ended (end) and how many runs there were (n).
CommandIdle ==
    [pc |-> "idle", all |-> <<>>, i |-> 0, cursor |-> <<>>, pending |-> 0, processed |-> 0,
     errors |-> 0, limit |-> 0, reflect_every |-> 0, chunk_size |-> 0,
     handled |-> {}, skipped |-> {}, before |-> {}, failed |-> {}, end |-> "", n |-> 0]
\* no cursor file, no transcript, no Observer run yet; config.py:57
ObserverIdle ==
    /\ cursor_file = [exists |-> FALSE, text |-> <<>>]
    /\ transcripts = [claude |-> <<>>, codex |-> <<>>, other |-> <<>>]
    /\ command = CommandIdle
    /\ min_messages = 5
    /\ entry = "none"
    /\ odry = FALSE
    /\ ocalls = <<>>
    /\ oresult = [kind |-> "None", text |-> <<>>, n |-> 0]
    /\ oruns = 0

(* _chunk_observations applied to every input *)
ChunkInit == PipeIdle /\ StampIdle /\ TrimIdle /\ CursorIdle /\ ObserverIdle /\ chIn \in ChunkInputs /\ chOut = <<>> /\ chDone = FALSE

ChunkApply ==
    /\ ~chDone
    /\ chOut' = _chunk_observations(chIn)
    /\ chDone' = TRUE
    /\ UNCHANGED <<chIn, pipeVars, stampVars, trimVars, folded, cursorVars, observerVars>>

ChunkNext == ChunkApply
SpecChunk == ChunkInit /\ [][ChunkNext]_vars

(* _stamp_timestamps applied to every input *)
StampInit == PipeIdle /\ ChunkIdle /\ TrimIdle /\ CursorIdle /\ ObserverIdle /\ stIn \in StampInputs /\ stOut = <<>> /\ stDone = FALSE /\ stReflected = NoReflected /\ stAgain = [some |-> FALSE, text |-> <<>>]

StampApply ==
    /\ ~stDone
    /\ \E time \in BOOLEAN :
          /\ stReflected' = [d |-> StampDay, time |-> time]
          /\ stOut' = _stamp_timestamps(stIn, StampNow, stReflected')
    /\ stDone' = TRUE
    /\ UNCHANGED <<stIn, stAgain, pipeVars, chunkVars, trimVars, folded, cursorVars, observerVars>>

\* the stamped text is stamped again with the same values
StampAgain ==
    /\ stDone
    /\ ~stAgain.some
    /\ stAgain' = [some |-> TRUE, text |-> _stamp_timestamps(stOut, StampNow, stReflected)]
    /\ UNCHANGED <<stIn, stOut, stDone, stReflected, pipeVars, chunkVars, trimVars, folded,
                   cursorVars, observerVars>>

StampNext == StampApply \/ StampAgain
SpecStamp == StampInit /\ [][StampNext]_vars

----------------------------------------------------------------------------
(* Files, the oracle and the Observer's writes *)

File(text) == [exists |-> TRUE, text |-> text]
\* path.read_text() guarded by path.exists(), reflect.py:50-52 and 57-59
ReadOrEmpty(f) == IF f.exists THEN f.text ELSE <<>>

None == [some |-> FALSE, text |-> <<>>]
Some(text) == [some |-> TRUE, text |-> text]

\* texts the compression oracle may return to the Reflector: a document with
\* both metadata lines, one that starts with a line of prose instead of the
\* heading and has neither, and an empty response
ReflectorOutputs ==
    { <<T, NL, NL, U(0), NL, R(1), NL, NL, S(1), NL, B(20), NL>>,
      <<P, NL, T, NL, NL, S(1), NL>>,
      <<>> }

\* texts the compression oracle may return to the live Observer on day t,
\* given the existing observations document: the new section alone, the
\* whole document with the new section merged in, or a whole new document
\* holding two large sections
ObserverOutputs(t, existing) ==
    { <<D(t), NL, NL, B(20)>>,
      (IF strip(existing) = <<>> THEN <<H>> ELSE rstrip(existing))
          \o <<NL, NL, D(t), NL, NL, B(40)>>,
      <<H, NL, NL, D(t - 1), NL, NL, B(60000), NL, NL, D(t), NL, NL, B(50000), NL>> }

\* texts the oracle may return in backfill mode, where transcripts of past
\* days are replayed: a section of the oldest day the trim still keeps, or a
\* large one of the current day that, written to an absent file and read in a
\* first run, makes the input estimate exactly _MAX_INPUT_TOKENS
BackfillOutputs(t) ==
    { <<D(t - observation_retention_days), NL, NL, B(20)>>,
      <<D(t), NL, NL,
        B((MaxInputTokens * CharsPerTokenNum) \div CharsPerTokenDen
              - SystemPromptLen - TokLen(D(t)) - 3)>> }

\* _reindex_if_enabled (reflect.py:263-271, observe.py:332-340): nothing is
\* done for the backend "none"; search.reindex rebuilds the index from both
\* documents; with "qmd" and no qmd program installed the rebuild raises and
\* the exception is swallowed
Reindexed(obsf, reff) ==
    IF search_backend = "bm25"
    THEN [built |-> TRUE, obs |-> ReadOrEmpty(obsf), refl |-> ReadOrEmpty(reff)]
    ELSE index

\* observe.py:343-361
_write_observations(new_observations, f, t) ==
    IF f.exists
    THEN IF strip(f.text) # <<>> /\ \E i \in 1..Len(new_observations) : new_observations[i] = D(t)
         THEN File(rstrip(new_observations) \o <<NL>>)
         ELSE File(rstrip(f.text) \o <<NL, NL>> \o rstrip(new_observations) \o <<NL>>)
    ELSE File(rstrip(new_observations) \o <<NL>>)

\* observe.py:295-306; the mutant replaces the document
_append_observations_mut(new_observations, f) == File(rstrip(new_observations) \o <<NL>>)
_append_observations(new_observations, f) ==
    IF f.exists
    THEN File(rstrip(f.text) \o <<NL, NL>> \o rstrip(new_observations) \o <<NL>>)
    ELSE File(rstrip(new_observations) \o <<NL>>)

\* reflect.py:291-315; the mutant drops the section dated at the cutoff
TrimKeep_mut(section, cutoff) == ~IsDateSection(section) \/ SectionDate(section) > cutoff
TrimKeep(section, cutoff) == ~IsDateSection(section) \/ SectionDate(section) >= cutoff

\* the mutant keeps the Date Sections of the window and nothing else
_trim_old_observations_mut(f, t) ==
    IF ~f.exists THEN f
    ELSE LET cutoff == t - observation_retention_days
             kept == SelectSeq(SplitDateSections(f.text),
                               LAMBDA x : IsDateSection(x) /\ TrimKeep(x, cutoff))
         IN  File(rstrip(Concat(kept)) \o <<NL>>)
_trim_old_observations(f, t) ==
    IF ~f.exists THEN f
    ELSE LET cutoff == t - observation_retention_days
             kept == SelectSeq(SplitDateSections(f.text), LAMBDA x : TrimKeep(x, cutoff))
         IN  File(rstrip(Concat(kept)) \o <<NL>>)

(* _trim_old_observations applied to every input *)

\* the day of the trim and the first day it keeps
TrimDay == StartDay
TrimCutoff == TrimDay - observation_retention_days

\* what stands before the first Date Section: nothing, a blank line, the
\* title, the title and the comment of the install template
TrimHeaders == {<<>>, <<NL>>, <<H, NL, NL>>, <<H, NL, NL, B(41), NL, NL>>}
\* the days of the sections: before the cutoff, at it, after it
TrimDates == {TrimCutoff - 1, TrimCutoff, TrimCutoff + 1}
DateSeqs == UNION {[1..n -> TrimDates] : n \in 0..MaxSections}
\* the end of the document: as the program writes it, or with more white space
TrimEndings == {<<>>, <<NL, SP, NL>>}

DatedSections(ds) == Concat([j \in 1..Len(ds) |-> <<D(ds[j]), NL, NL, B(20), NL, NL>>])

TrimInputs ==
    {[exists |-> FALSE, text |-> <<>>]}
        \cup {File(rstrip(h \o DatedSections(ds)) \o <<NL>> \o e) :
                    h \in TrimHeaders, ds \in DateSeqs, e \in TrimEndings}

TrimInit ==
    /\ PipeIdle /\ ChunkIdle /\ StampIdle /\ CursorIdle /\ ObserverIdle
    /\ trIn \in TrimInputs
    /\ trOut = [exists |-> FALSE, text |-> <<>>]
    /\ trDone = FALSE
    /\ folded = {}

TrimApply ==
    /\ ~trDone
    /\ trOut' = _trim_old_observations(trIn, TrimDay)
    /\ trDone' = TRUE
    /\ UNCHANGED <<trIn, folded, pipeVars, chunkVars, stampVars, cursorVars, observerVars>>

TrimNext == TrimApply
SpecTrim == TrimInit /\ [][TrimNext]_vars

\* The Observer runs in processes of its own, at any time.  The Reflector
\* reads the observations file on entry and again in the trim and nowhere
\* between, so a write of the Observer at any moment of a run before the trim
\* leaves the same files as one just before the trim, and one after the trim
\* the same as one after the run.
Yielding == pc \in {"idle", "written"}

\* operations begun so far
Ops == runs + writes + (today - StartDay)

reflectorLocals == <<dry_run, raw_observations, reflections, observations, chunks,
                     mode, running_reflections, calls, result, pc, runs, outcome>>

\* the clock passes midnight UTC
Tick ==
    /\ pc = "idle"
    /\ Ops < MaxOps
    /\ today' = today + 1
    /\ UNCHANGED <<observations_file, reflections_file, search_backend, index, writes,
                   reflectorLocals, chunkVars, stampVars, trimVars, folded, cursorVars, observerVars>>

\* the initial memory files of cli.py:325-343
ObservationsTemplate == <<H, NL, NL, B(41), NL>>
ReflectionsTemplate ==
    <<TLong, NL, NL, UNever, NL, NL, B(42), NL, NL,
      S(1), NL, NL, S(2), NL, NL, S(3), NL, NL, S(4), NL, NL,
      S(5), NL, NL, S(6), NL, NL, S(7), NL>>

\* the install command, cli.py:325-343: each file is created if it is absent
Install ==
    /\ pc = "idle"
    /\ Ops < MaxOps
    /\ ~observations_file.exists \/ ~reflections_file.exists
    /\ observations_file' = IF observations_file.exists THEN observations_file
                            ELSE File(ObservationsTemplate)
    /\ reflections_file' = IF reflections_file.exists THEN reflections_file
                           ELSE File(ReflectionsTemplate)
    /\ writes' = writes + 1
    /\ UNCHANGED <<today, search_backend, index, reflectorLocals, chunkVars, stampVars, trimVars, folded, cursorVars, observerVars>>

\* run_observer's write, observe.py:55 (live mode)
ObserverLiveWrite ==
    /\ Yielding
    /\ Ops < MaxOps
    /\ \E out \in ObserverOutputs(today, ReadOrEmpty(observations_file)) :
          /\ observations_file' = _write_observations(out, observations_file, today)
    /\ index' = Reindexed(observations_file', reflections_file)
    /\ writes' = writes + 1
    /\ UNCHANGED <<today, reflections_file, search_backend, reflectorLocals, chunkVars, stampVars, trimVars, folded, cursorVars, observerVars>>

\* run_observer_backfill's write, observe.py:219 (skip_reindex=True)
ObserverBackfillWrite ==
    /\ Yielding
    /\ Ops < MaxOps
    /\ \E out \in BackfillOutputs(today) :
          /\ observations_file' = _append_observations(out, observations_file)
    /\ writes' = writes + 1
    /\ UNCHANGED <<today, reflections_file, search_backend, index, reflectorLocals, chunkVars, stampVars, trimVars, folded, cursorVars, observerVars>>

----------------------------------------------------------------------------
(* run_reflector, reflect.py:32-94 *)

\* reflect.py:71-74: estimated_tokens <= _MAX_INPUT_TOKENS, with
\* estimated_tokens = total_input_chars / 3.5 (both sides times 35)
FitsSinglePass_mut(refl, obs) ==
    (SystemPromptLen + StrLen(refl) + StrLen(obs)) * CharsPerTokenDen
        < MaxInputTokens * CharsPerTokenNum
FitsSinglePass(refl, obs) ==
    (SystemPromptLen + StrLen(refl) + StrLen(obs)) * CharsPerTokenDen
        <= MaxInputTokens * CharsPerTokenNum

\* reflect.py:54 and 65: the two "nothing to reflect on" tests.  The mutant
\* compares without strip().
NothingToReflect_mut(raw, obs) == raw = <<>> \/ obs = <<>>
NothingToReflect(raw, obs) == strip(raw) = <<>> \/ strip(obs) = <<>>

\* reflect.py:47-79, up to the first oracle call
ReflectBegin ==
    /\ pc = "idle"
    /\ Ops < MaxOps
    /\ runs' = runs + 1
    /\ LET raw == ReadOrEmpty(observations_file)
           refl == ReadOrEmpty(reflections_file)
           obs == _filter_new_observations(raw, _parse_last_reflected(refl))
       IN  /\ calls' = <<>>
           /\ result' = None
           /\ IF NothingToReflect(raw, obs)
              THEN /\ pc' = "idle"
                   /\ dry_run' = FALSE
                   /\ outcome' = "nothing"
                   /\ mode' = "none"
                   /\ raw_observations' = <<>>
                   /\ reflections' = <<>>
                   /\ observations' = <<>>
                   /\ chunks' = <<>>
                   /\ running_reflections' = <<>>
              ELSE /\ pc' = "oracle"
                   /\ dry_run' \in BOOLEAN
                   /\ outcome' = "running"
                   /\ raw_observations' = raw
                   /\ reflections' = refl
                   /\ observations' = obs
                   /\ running_reflections' = refl
                   /\ IF FitsSinglePass(refl, obs)
                      THEN mode' = "single" /\ chunks' = <<obs>>
                      ELSE mode' = "chunked" /\ chunks' = _chunk_observations(obs)
    /\ UNCHANGED <<today, observations_file, reflections_file, search_backend, index, writes,
                   chunkVars, stampVars, trimVars, folded, cursorVars, observerVars>>

\* reflect.py:119-126: the note is appended for every chunk but the last
FoldNote_mut(i, total) == [i |-> i, total |-> total]
FoldNote(i, total) == IF i < total THEN [i |-> i, total |-> total] ELSE [i |-> 0, total |-> 0]

\* which reflections text the next call is given, reflect.py:129 and 102
CallInput_mut(running, original) == original
CallInput(running, original) == running

\* one compress() call returning: _reflect_single (reflect.py:101-106) or one
\* iteration of _reflect_chunked (reflect.py:117-135)
OracleReturn ==
    /\ pc = "oracle"
    /\ Len(calls) < Len(chunks)
    /\ \E out \in ReflectorOutputs :
          LET i == Len(calls) + 1
          IN  /\ calls' = Append(calls,
                    [note |-> IF mode = "chunked" THEN FoldNote(i, Len(chunks))
                                                 ELSE FoldNote(0, 0),
                     i |-> i,
                     reflections |-> CallInput(running_reflections, reflections),
                     observations |-> chunks[i],
                     out |-> out])
              /\ running_reflections' = out
              /\ pc' = IF i = Len(chunks) THEN "stamp" ELSE "oracle"
    /\ UNCHANGED <<today, observations_file, reflections_file, search_backend, index, writes,
                   dry_run, raw_observations, reflections, observations, chunks,
                   mode, result, runs, outcome, chunkVars, stampVars, trimVars, folded, cursorVars, observerVars>>

\* the locals of run_reflector are gone once it has returned
LocalsGone ==
    /\ raw_observations' = <<>>
    /\ reflections' = <<>>
    /\ observations' = <<>>
    /\ chunks' = <<>>
    /\ mode' = "none"
    /\ running_reflections' = <<>>
    /\ calls' = <<>>
    /\ dry_run' = FALSE

\* compress() raising: nothing is caught in reflect.py, the run ends.  The
\* mutant is a fold that keeps what it has so far and writes it.
OracleRaise_mut ==
    /\ pc = "oracle"
    /\ 0 < Len(calls) /\ Len(calls) < Len(chunks)
    /\ pc' = "stamp"
    /\ UNCHANGED <<today, observations_file, reflections_file, search_backend, index, writes,
                   dry_run, raw_observations, reflections, observations, chunks,
                   mode, running_reflections, calls, result, runs, outcome,
                   chunkVars, stampVars, trimVars, folded, cursorVars, observerVars>>
OracleRaise ==
    /\ pc = "oracle"
    /\ Len(calls) < Len(chunks)
    /\ pc' = "idle"
    /\ result' = None
    /\ outcome' = IF calls = <<>> THEN "raised" ELSE "raised in fold"
    /\ LocalsGone
    /\ UNCHANGED <<today, observations_file, reflections_file, search_backend, index, writes,
                   runs, chunkVars, stampVars, trimVars, folded, cursorVars, observerVars>>

\* reflect.py:83-85
Stamp ==
    /\ pc = "stamp"
    /\ LET latest_obs_date == _extract_latest_observation_date(raw_observations)
           reflected == IF latest_obs_date.some
                        THEN [d |-> latest_obs_date.d, time |-> FALSE]
                        ELSE [d |-> today, time |-> TRUE]
       IN  result' = Some(_stamp_timestamps(running_reflections, today, reflected))
    /\ pc' = "stamped"
    /\ UNCHANGED <<today, observations_file, reflections_file, search_backend, index, writes,
                   dry_run, raw_observations, reflections, observations, chunks,
                   mode, running_reflections, calls, runs, outcome,
                   chunkVars, stampVars, trimVars, folded, cursorVars, observerVars>>

\* reflect.py:87-88
DryReturn ==
    /\ pc = "stamped"
    /\ dry_run
    /\ pc' = "idle"
    /\ outcome' = "dry"
    /\ LocalsGone
    /\ UNCHANGED <<today, observations_file, reflections_file, search_backend, index, writes,
                   result, runs, chunkVars, stampVars, trimVars, folded, cursorVars, observerVars>>

\* reflect.py:90 and 285-288; the mutant writes in a dry run too
WriteReflections_mut ==
    /\ pc = "stamped"
    /\ reflections_file' = File(rstrip(result.text) \o <<NL>>)
    /\ pc' = "written"
    /\ UNCHANGED <<today, observations_file, search_backend, index, writes,
                   dry_run, raw_observations, reflections, observations, chunks,
                   mode, running_reflections, calls, result, runs, outcome,
                   chunkVars, stampVars, trimVars, folded, cursorVars, observerVars>>
WriteReflections ==
    /\ pc = "stamped"
    /\ ~dry_run
    /\ reflections_file' = File(rstrip(result.text) \o <<NL>>)
    /\ pc' = "written"
    /\ UNCHANGED <<today, observations_file, search_backend, index, writes,
                   dry_run, raw_observations, reflections, observations, chunks,
                   mode, running_reflections, calls, result, runs, outcome,
                   chunkVars, stampVars, trimVars, folded, cursorVars, observerVars>>

\* the Date Sections of a text, each without the white space at its end
DateSectionsOf(text) ==
    {rstrip(SplitDateSections(text)[j]) :
        j \in {k \in DOMAIN SplitDateSections(text) : IsDateSection(SplitDateSections(text)[k])}}

\* the Date Sections in the oracle input of the calls of a run
FoldedBy(calls_) == UNION {DateSectionsOf(calls_[i].observations) : i \in DOMAIN calls_}

\* reflect.py:91; the mutant trims before the write, dry run or not
Trim_mut ==
    /\ pc = "stamped"
    /\ observations_file' = _trim_old_observations(observations_file, today)
    /\ pc' = "trimmed"
    /\ UNCHANGED <<today, reflections_file, search_backend, index, writes,
                   dry_run, raw_observations, reflections, observations, chunks,
                   mode, running_reflections, calls, result, runs, outcome,
                   chunkVars, stampVars, trimVars, folded, cursorVars, observerVars>>
Trim ==
    /\ pc = "written"
    /\ observations_file' = _trim_old_observations(observations_file, today)
    /\ pc' = "trimmed"
    /\ UNCHANGED <<today, reflections_file, search_backend, index, writes,
                   dry_run, raw_observations, reflections, observations, chunks,
                   mode, running_reflections, calls, result, runs, outcome,
                   chunkVars, stampVars, trimVars, folded, cursorVars, observerVars>>

\* reflect.py:92-94; in the mutant a failure of the rebuild ends the run
Reindex_mut ==
    /\ pc = "trimmed"
    /\ index' = Reindexed(observations_file, reflections_file)
    /\ pc' = "idle"
    /\ outcome' = IF search_backend = "qmd" THEN "raised" ELSE "written"
    /\ result' = IF search_backend = "qmd" THEN None ELSE result
    /\ LocalsGone
    /\ UNCHANGED <<today, observations_file, reflections_file, search_backend, writes,
                   runs, chunkVars, stampVars, trimVars, folded, cursorVars, observerVars>>
Reindex ==
    /\ pc = "trimmed"
    /\ index' = Reindexed(observations_file, reflections_file)
    /\ pc' = "idle"
    /\ outcome' = "written"
    /\ LocalsGone
    /\ UNCHANGED <<today, observations_file, reflections_file, search_backend, writes,
                   result, runs, chunkVars, stampVars, trimVars, folded, cursorVars, observerVars>>

Init == PipeIdle /\ ChunkIdle /\ StampIdle /\ TrimIdle /\ CursorIdle /\ ObserverIdle

Next ==
    \/ Tick
    \/ Install
    \/ ObserverLiveWrite
    \/ ObserverBackfillWrite
    \/ ReflectBegin
    \/ OracleReturn
    \/ OracleRaise
    \/ Stamp
    \/ DryReturn
    \/ WriteReflections
    \/ Trim
    \/ Reindex

Spec == Init /\ [][Next]_vars

----------------------------------------------------------------------------
(* The cursor store, config.py:132-140 *)

\* The cursor is a dict: a sequence of members [key, val] with distinct keys,
\* in insertion order.  The text of the cursor file is a sequence of JSON
\* tokens: "{", the members, "}", "\n".
JOpen == [j |-> "{", key |-> "", val |-> 0]
JClose == [j |-> "}", key |-> "", val |-> 0]
JNewline == [j |-> "\n", key |-> "", val |-> 0]
JMember(key, val) == [j |-> "member", key |-> key, val |-> val]

EmptyDict == <<>>

Keys(dict) == {dict[i].key : i \in DOMAIN dict}

\* dict.get(key): [some, v]
dict_get(dict, key) ==
    IF key \in Keys(dict)
    THEN [some |-> TRUE, v |-> dict[CHOOSE i \in DOMAIN dict : dict[i].key = key].val]
    ELSE [some |-> FALSE, v |-> 0]

\* dict[key] = val: an existing key keeps its place
dict_set(dict, key, val) ==
    IF key \in Keys(dict)
    THEN [i \in DOMAIN dict |-> IF dict[i].key = key THEN [key |-> key, val |-> val]
                                                        ELSE dict[i]]
    ELSE Append(dict, [key |-> key, val |-> val])

\* json.dumps(cursor, indent=2) + "\n", config.py:140
json_dumps(dict) ==
    <<JOpen>> \o [i \in DOMAIN dict |-> JMember(dict[i].key, dict[i].val)] \o <<JClose, JNewline>>

\* the members of a JSON object as a dict: a repeated key takes its last value
RECURSIVE MembersToDict(_, _)
MembersToDict(members, dict) ==
    IF members = <<>> THEN dict
    ELSE MembersToDict(Tail(members), dict_set(dict, Head(members).key, Head(members).val))

\* json.loads(text), config.py:135: the dict of a well-formed object text;
\* anything else raises json.JSONDecodeError
WellFormed(text) ==
    /\ Len(text) >= 2
    /\ text[1] = JOpen
    /\ \E c \in 2..Len(text) :
          /\ text[c] = JClose
          /\ \A i \in 2..(c - 1) : text[i].j = "member"
          /\ \A i \in (c + 1)..Len(text) : text[i] = JNewline

json_loads(text) ==
    IF WellFormed(text)
    THEN [ok |-> TRUE,
          dict |-> MembersToDict(SelectSeq(text, LAMBDA x : x.j = "member"), EmptyDict)]
    ELSE [ok |-> FALSE, dict |-> EmptyDict]

\* Config.load_cursor, config.py:132-136.  The mutant takes a text that does
\* not parse for an empty cursor.
load_cursor_mut(f) ==
    IF f.exists /\ WellFormed(f.text) THEN json_loads(f.text)
    ELSE [ok |-> TRUE, dict |-> EmptyDict]
load_cursor(f) ==
    IF f.exists THEN json_loads(f.text) ELSE [ok |-> TRUE, dict |-> EmptyDict]

\* Config.save_cursor, config.py:138-140.  The mutant adds the members to the
\* ones the file holds.
save_cursor_mut(f, dict) ==
    File(json_dumps(MembersToDict([i \in DOMAIN dict |-> JMember(dict[i].key, dict[i].val)],
                                  load_cursor_mut(f).dict)))
save_cursor(f, dict) == File(json_dumps(dict))

(* save_cursor and load_cursor applied to every input *)

\* the keys of the cursor: the paths of the Claude transcript and of the
\* Codex session (observe.py:71 and 132)
ClaudeKey == "claude.jsonl"
CodexKey == "codex.jsonl"
CursorKeys == {ClaudeKey, CodexKey}
CursorVals == {1, 2}

\* the dicts over these keys, in either insertion order
CursorDicts ==
    {EmptyDict}
        \cup {<<[key |-> k, val |-> v]>> : k \in CursorKeys, v \in CursorVals}
        \cup {<<[key |-> ks[1], val |-> v1], [key |-> ks[2], val |-> v2]>> :
                 ks \in {<<ClaudeKey, CodexKey>>, <<CodexKey, ClaudeKey>>},
                 v1 \in CursorVals, v2 \in CursorVals}

\* a write that was cut short: the text without its end
Truncated(text) == SubSeq(text, 1, Len(text) - 2)

CursorFiles ==
    {[exists |-> FALSE, text |-> <<>>]}
        \cup {File(json_dumps(d)) : d \in CursorDicts}
        \cup {File(Truncated(json_dumps(d))) : d \in CursorDicts}

CursorInit ==
    /\ PipeIdle /\ ChunkIdle /\ StampIdle /\ TrimIdle
    /\ cursor_file \in CursorFiles
    /\ csIn \in CursorDicts
    /\ csLoaded = [ok |-> TRUE, dict |-> <<>>]
    /\ csStep = "idle"
    /\ transcripts = [claude |-> <<>>, codex |-> <<>>, other |-> <<>>]
    /\ command = CommandIdle
    /\ min_messages = 5
    /\ entry = "none" /\ odry = FALSE /\ ocalls = <<>> /\ oruns = 0
    /\ oresult = [kind |-> "None", text |-> <<>>, n |-> 0]

observerLocals == <<transcripts, min_messages, entry, odry, ocalls, oresult, oruns, command>>

\* config.save_cursor(csIn)
CursorSave ==
    /\ csStep = "idle"
    /\ cursor_file' = save_cursor(cursor_file, csIn)
    /\ csStep' = "saved"
    /\ UNCHANGED <<csIn, csLoaded, observerLocals, pipeVars, chunkVars, stampVars, trimVars, folded>>

\* config.load_cursor(), on the file as found or after the save
CursorLoad ==
    /\ csStep \in {"idle", "saved"}
    /\ csLoaded' = load_cursor(cursor_file)
    /\ csStep' = IF csStep = "idle" THEN "loaded" ELSE "saved and loaded"
    /\ UNCHANGED <<csIn, cursor_file, observerLocals, pipeVars, chunkVars, stampVars, trimVars, folded>>

CursorNext == CursorSave \/ CursorLoad
SpecCursor == CursorInit /\ [][CursorNext]_vars

----------------------------------------------------------------------------
(* The Observer, observe.py *)

(* Bounds of the Observer model *)
\* transcript entries and Observer runs in one behaviour
MaxObserverOps == 6

\* A transcript is the sequence of the kinds of its entries; the uuid of an
\* entry of the Claude transcript is its position.
\*   "msg"    a user or assistant entry with content
\*   "meta"   a user entry marked isMeta (claude.py:49)
\*   "event"  a record that is no message (codex.py:133-138)
ClaudeKinds == {"msg", "meta"}
CodexKinds == {"msg", "event"}

\* claude.py:24-59: the messages (by uuid) after the entry after_uuid
RECURSIVE ClaudeLoop(_, _, _, _)
ClaudeLoop(entries, i, seen_after, after_uuid) ==
    IF i > Len(entries) THEN <<>>
    ELSE IF ~seen_after THEN ClaudeLoop(entries, i + 1, i = after_uuid, after_uuid)
    ELSE IF entries[i] = "meta" THEN ClaudeLoop(entries, i + 1, TRUE, after_uuid)
    ELSE <<i>> \o ClaudeLoop(entries, i + 1, TRUE, after_uuid)

\* claude.py:11-61, with after_uuid = cursor.get(cursor_key)
parse_claude(entries, after) == ClaudeLoop(entries, 1, ~after.some, after.v)

\* observe.py:84-94 and 275-285: the uuid of the last user or assistant
\* entry, 0 for None
LastUuid(entries) == Len(entries)

\* codex.py:110-153 with after_index = None: the messages, by position
parse_codex(entries) ==
    SelectSeq([i \in DOMAIN entries |-> i], LAMBDA i : entries[i] = "msg")

\* codex.py:66-107: the records with a role among the first line_offset
\* lines; a record whose content is empty ("blank") has a role and is counted
\* here, while parse_transcript leaves it out (codex.py:145)
line_offset_to_message_count(entries, line_offset) ==
    IF line_offset <= 0 THEN 0
    ELSE Cardinality({i \in DOMAIN entries :
                         i <= line_offset /\ entries[i] \in {"msg", "blank"}})

\* observe.py:133-151: the index the new messages start after; the mutant
\* takes the converted value as it is
AfterIndex_mut(entries, got) ==
    LET after_index == IF got.some THEN got.v ELSE 0
        n == Len(parse_codex(entries))
        migrated_index == line_offset_to_message_count(entries, after_index)
    IN  IF after_index # 0 /\ after_index > n THEN migrated_index ELSE after_index
AfterIndex(entries, got) ==
    LET after_index == IF got.some THEN got.v ELSE 0
        n == Len(parse_codex(entries))
        migrated_index == line_offset_to_message_count(entries, after_index)
    IN  IF after_index # 0 /\ after_index > n
        THEN IF 0 <= migrated_index /\ migrated_index < n THEN migrated_index ELSE 0
        ELSE after_index

\* observe.py:169-180; the mutant drops a last chunk that is not full
RECURSIVE _chunk_messages_mut(_, _)
_chunk_messages_mut(messages, chunk_size) ==
    IF Len(messages) < chunk_size THEN <<>>
    ELSE <<SubSeq(messages, 1, chunk_size)>>
            \o _chunk_messages_mut(SubSeq(messages, chunk_size + 1, Len(messages)), chunk_size)
RECURSIVE _chunk_messages(_, _)
_chunk_messages(messages, chunk_size) ==
    IF messages = <<>> THEN <<>>
    ELSE IF Len(messages) <= chunk_size THEN <<messages>>
    ELSE <<SubSeq(messages, 1, chunk_size)>>
            \o _chunk_messages(SubSeq(messages, chunk_size + 1, Len(messages)), chunk_size)

\* what an entry point returns: None, a text, a list of texts (of n texts,
\* at most one with a single session), a count of characters, or an exception
Ret(kind, text, n) == [kind |-> kind, text |-> text, n |-> n]
RetNone == Ret("None", <<>>, 0)
RetRaised == Ret("raised", <<>>, 0)
RetText(text) == Ret("text", text, 0)

\* "if result": a str that is not empty
Truthy(ret) == ret.kind = "text" /\ ret.text # <<>>

\* how a compress() call ends
Returned(text) == [raised |-> FALSE, text |-> text]
OracleRaised == [raised |-> TRUE, text |-> <<>>]

\* texts the oracle may return to the live Observer on day t: the section of
\* the day alone, the whole document with that section added, the section of
\* the day before alone, notes that mention "## <day t>" in the middle of a
\* line, and an empty text
LiveOutputs(t, existing) ==
    { <<D(t), NL, NL, B(20)>>,
      (IF strip(existing) = <<>> THEN <<H>> ELSE rstrip(existing))
          \o <<NL, NL, D(t), NL, NL, B(40)>>,
      <<D(t - 1), NL, NL, B(30), NL>>,
      <<B(20), SP, D(t), NL>>,
      <<>> }
LiveOutcomes(t, existing) == {Returned(x) : x \in LiveOutputs(t, existing)} \cup {OracleRaised}

\* texts the oracle may return in backfill mode
ReplayOutputs(t) == { <<D(t - 1), NL, NL, B(20)>>, <<D(t), NL, NL, B(30), NL>> }
ReplayOutcomes(t) == {Returned(x) : x \in ReplayOutputs(t)} \cup {OracleRaised}

\* the effect of a run: what it returns, its oracle calls, the observations
\* file and the cursor file it leaves, whether it rebuilt the index
Effect(ret, calls_, obsf, curf, reindexed) ==
    [ret |-> ret, calls |-> calls_, obs |-> obsf, cursor |-> curf, reindexed |-> reindexed]

\* the input of an oracle call: the mode, the existing observations when the
\* prompt holds them (observe.py:44-48 against 212), the messages (they are
\* consecutive: the first of them and how many they are)
OracleCall(mode_, existing, messages, o) ==
    [mode |-> mode_, existing |-> existing, first |-> Head(messages),
     messages |-> Len(messages), out |-> o]

\* run_observer, observe.py:16-56; o is how the compress() call ends.  The
\* mutant writes in a dry run too.
run_observer_mut(messages, dry, o, obsf, curf) ==
    IF Len(messages) < min_messages THEN Effect(RetNone, <<>>, obsf, curf, FALSE)
    ELSE LET call == OracleCall("live", Some(ReadOrEmpty(obsf)), messages, o)
         IN  IF o.raised THEN Effect(RetRaised, <<call>>, obsf, curf, FALSE)
             ELSE Effect(RetText(o.text), <<call>>,
                         _write_observations(o.text, obsf, today), curf, TRUE)
run_observer(messages, dry, o, obsf, curf) ==
    IF Len(messages) < min_messages THEN Effect(RetNone, <<>>, obsf, curf, FALSE)
    ELSE LET call == OracleCall("live", Some(ReadOrEmpty(obsf)), messages, o)
         IN  IF o.raised THEN Effect(RetRaised, <<call>>, obsf, curf, FALSE)
             ELSE IF dry THEN Effect(RetText(o.text), <<call>>, obsf, curf, FALSE)
             ELSE Effect(RetText(o.text), <<call>>,
                         _write_observations(o.text, obsf, today), curf, TRUE)

\* run_observer_backfill, observe.py:183-220
run_observer_backfill(messages, dry, o, obsf, curf) ==
    IF Len(messages) < min_messages THEN Effect(RetNone, <<>>, obsf, curf, FALSE)
    ELSE LET call == OracleCall("backfill", None, messages, o)
         IN  IF o.raised THEN Effect(RetRaised, <<call>>, obsf, curf, FALSE)
             ELSE IF dry THEN Effect(RetText(o.text), <<call>>, obsf, curf, FALSE)
             ELSE Effect(RetText(o.text), <<call>>,
                         _append_observations(o.text, obsf), curf, FALSE)

\* observe.py:81-97: the cursor is saved after a run that returned a text.
\* The mutant saves it after every run that is not a dry run.
CursorAfterLive_mut(run, dry, dict, key, val, curf) ==
    IF ~dry /\ val # 0 THEN save_cursor(curf, dict_set(dict, key, val)) ELSE curf
CursorAfterLive(run, dry, dict, key, val, curf) ==
    IF Truthy(run.ret) /\ ~dry /\ val # 0
    THEN save_cursor(curf, dict_set(dict, key, val)) ELSE curf

\* observe_claude_transcript, observe.py:59-99.  The transcript file is read
\* twice: by parse_transcript before the oracle call (observe.py:76) and
\* again after it to find the last uuid (observe.py:85); reread is the
\* entries of the file at the second read.
observe_claude_transcript_read(dry, o, reread) ==
    LET cursor == load_cursor(cursor_file)
        messages == parse_claude(transcripts.claude, dict_get(cursor.dict, ClaudeKey))
        run == run_observer(messages, dry, o, observations_file, cursor_file)
    IN  IF ~cursor.ok THEN Effect(RetRaised, <<>>, observations_file, cursor_file, FALSE)
        ELSE IF messages = <<>> THEN Effect(RetNone, <<>>, observations_file, cursor_file, FALSE)
        ELSE [run EXCEPT !.cursor = CursorAfterLive(run, dry, cursor.dict, ClaudeKey,
                                                    LastUuid(reread), cursor_file)]

\* the same with no entry appended to the file during the run
observe_claude_transcript(dry, o) == observe_claude_transcript_read(dry, o, transcripts.claude)

\* observe_all_codex, observe.py:117-166, with the one session there is; the
\* mutant stores the number of new messages
observe_all_codex_mut(dry, o) ==
    LET cursor == load_cursor(cursor_file)
        all_messages == parse_codex(transcripts.codex)
        after_index == AfterIndex(transcripts.codex, dict_get(cursor.dict, CodexKey))
        messages == SubSeq(all_messages, after_index + 1, Len(all_messages))
        run == run_observer(messages, dry, o, observations_file, cursor_file)
        results == IF Truthy(run.ret) THEN Ret("list", run.ret.text, 1) ELSE Ret("list", <<>>, 0)
    IN  IF ~cursor.ok THEN Effect(RetRaised, <<>>, observations_file, cursor_file, FALSE)
        ELSE IF all_messages = <<>> \/ messages = <<>>
             THEN Effect(Ret("list", <<>>, 0), <<>>, observations_file, cursor_file, FALSE)
        ELSE IF run.ret.kind = "raised" THEN run
        ELSE [run EXCEPT !.ret = results,
                         !.cursor = CursorAfterLive(run, dry, cursor.dict, CodexKey,
                                                    Len(messages), cursor_file)]
observe_all_codex(dry, o) ==
    LET cursor == load_cursor(cursor_file)
        all_messages == parse_codex(transcripts.codex)
        after_index == AfterIndex(transcripts.codex, dict_get(cursor.dict, CodexKey))
        messages == SubSeq(all_messages, after_index + 1, Len(all_messages))
        run == run_observer(messages, dry, o, observations_file, cursor_file)
        results == IF Truthy(run.ret) THEN Ret("list", run.ret.text, 1) ELSE Ret("list", <<>>, 0)
    IN  IF ~cursor.ok THEN Effect(RetRaised, <<>>, observations_file, cursor_file, FALSE)
        ELSE IF all_messages = <<>> \/ messages = <<>>
             THEN Effect(Ret("list", <<>>, 0), <<>>, observations_file, cursor_file, FALSE)
        ELSE IF run.ret.kind = "raised" THEN run
        ELSE [run EXCEPT !.ret = results,
                         !.cursor = CursorAfterLive(run, dry, cursor.dict, CodexKey,
                                                    Len(all_messages), cursor_file)]

\* the loop of observe.py:266-269 over the chunks from the k-th on; outs[k]
\* is how the call for the k-th chunk ends, if there is one
RECURSIVE BackfillLoop(_, _, _, _, _)
BackfillLoop(chunks_, k, dry, outs, eff) ==
    IF k > Len(chunks_) THEN eff
    ELSE LET run == run_observer_backfill(chunks_[k], dry, outs[k], eff.obs, eff.cursor)
             total_chars == eff.ret.n + (IF Truthy(run.ret) THEN StrLen(run.ret.text) ELSE 0)
         IN  IF run.ret.kind = "raised"
             THEN Effect(RetRaised, eff.calls \o run.calls, run.obs, eff.cursor, FALSE)
             ELSE BackfillLoop(chunks_, k + 1, dry, outs,
                               Effect(Ret("count", <<>>, total_chars), eff.calls \o run.calls,
                                      run.obs, eff.cursor, FALSE))

\* observe_claude_transcript_backfill, observe.py:223-292
observe_claude_transcript_backfill_path(entries, cursor_key, dry, chunk_size, outs) ==
    LET cursor == load_cursor(cursor_file)
        messages == parse_claude(entries, dict_get(cursor.dict, cursor_key))
        loop == BackfillLoop(_chunk_messages(messages, chunk_size), 1, dry, outs,
                    Effect(Ret("count", <<>>, 0), <<>>, observations_file, cursor_file, FALSE))
        last_uuid == LastUuid(entries)
    IN  IF ~cursor.ok THEN Effect(RetRaised, <<>>, observations_file, cursor_file, FALSE)
        ELSE IF messages = <<>> THEN Effect(RetNone, <<>>, observations_file, cursor_file, FALSE)
        ELSE IF loop.ret.kind = "raised" \/ dry THEN loop
        ELSE [loop EXCEPT !.cursor = IF last_uuid # 0
                                     THEN save_cursor(cursor_file,
                                              dict_set(cursor.dict, cursor_key, last_uuid))
                                     ELSE cursor_file,
                          !.reindexed = TRUE]

\* the same for the transcript the Observer entry points of this model read
observe_claude_transcript_backfill(dry, chunk_size, outs) ==
    observe_claude_transcript_backfill_path(transcripts.claude, ClaudeKey, dry, chunk_size, outs)

\* config.min_messages: the default of config.py:57 and a smaller threshold
MinMessages == {2, 5}
\* the chunk_size argument: the default of observe.py:226 and a smaller one
ChunkSizes == {2, 200}

ObserveInit ==
    /\ PipeIdle /\ ChunkIdle /\ StampIdle /\ TrimIdle /\ CursorIdle
    /\ cursor_file = [exists |-> FALSE, text |-> <<>>]
    /\ transcripts = [claude |-> <<>>, codex |-> <<>>, other |-> <<>>]
    /\ command = CommandIdle
    /\ min_messages \in MinMessages
    /\ entry = "none"
    /\ odry = FALSE
    /\ ocalls = <<>>
    /\ oresult = RetNone
    /\ oruns = 0

observerFrame == <<today, reflections_file, search_backend, reflectorLocals, writes,
                   min_messages, command, cursorVars, chunkVars, stampVars, trimVars, folded>>

\* the caller of the last run has taken what it returned
ResultTaken ==
    /\ entry' = "none"
    /\ odry' = FALSE
    /\ ocalls' = <<>>
    /\ oresult' = RetNone

\* entries appended and runs begun so far
ObserverOps == oruns + Len(transcripts.claude) + Len(transcripts.codex)

\* the agent appends an entry to one of the transcripts
TranscriptGrows ==
    /\ ObserverOps < MaxObserverOps
    /\ \/ \E kind \in ClaudeKinds :
             transcripts' = [transcripts EXCEPT !.claude = Append(@, kind)]
       \/ \E kind \in CodexKinds :
             transcripts' = [transcripts EXCEPT !.codex = Append(@, kind)]
    /\ ResultTaken
    /\ UNCHANGED <<observations_file, cursor_file, index, oruns, observerFrame>>

\* a write of the cursor file that was cut short (write_text, config.py:140)
CursorDamaged ==
    /\ cursor_file.exists
    /\ WellFormed(cursor_file.text)
    /\ cursor_file' = File(Truncated(cursor_file.text))
    /\ ResultTaken
    /\ UNCHANGED <<observations_file, transcripts, index, oruns, observerFrame>>

\* the state an entry point leaves
Ran(name, dry, eff) ==
    /\ entry' = name
    /\ odry' = dry
    /\ ocalls' = eff.calls
    /\ oresult' = eff.ret
    /\ observations_file' = eff.obs
    /\ cursor_file' = eff.cursor
    /\ index' = IF eff.reindexed THEN Reindexed(eff.obs, reflections_file) ELSE index
    /\ oruns' = oruns + 1
    /\ UNCHANGED <<transcripts, observerFrame>>

ObserveClaudeTranscript ==
    /\ ObserverOps < MaxObserverOps
    /\ \E dry \in BOOLEAN, o \in LiveOutcomes(today, ReadOrEmpty(observations_file)) :
          Ran("observe_claude_transcript", dry, observe_claude_transcript(dry, o))

ObserveAllCodex ==
    /\ ObserverOps < MaxObserverOps
    /\ \E dry \in BOOLEAN, o \in LiveOutcomes(today, ReadOrEmpty(observations_file)) :
          Ran("observe_all_codex", dry, observe_all_codex(dry, o))

\* the chunks of the new messages of the Claude transcript
NewChunks(chunk_size) ==
    _chunk_messages(parse_claude(transcripts.claude,
                                 dict_get(load_cursor(cursor_file).dict, ClaudeKey)),
                    chunk_size)

ObserveClaudeTranscriptBackfill ==
    /\ ObserverOps < MaxObserverOps
    /\ \E dry \in BOOLEAN, chunk_size \in ChunkSizes :
          \E outs \in [1..Len(NewChunks(chunk_size)) -> ReplayOutcomes(today)] :
              Ran("observe_claude_transcript_backfill", dry,
                  observe_claude_transcript_backfill(dry, chunk_size, outs))

ObserveNext ==
    \/ TranscriptGrows
    \/ CursorDamaged
    \/ ObserveClaudeTranscript
    \/ ObserveAllCodex
    \/ ObserveClaudeTranscriptBackfill

SpecObserve == ObserveInit /\ [][ObserveNext]_vars

(* observe_claude_transcript while the agent writes to the transcript *)

\* what the agent appends to the transcript while the oracle call is in
\* flight
InFlight == {<<>>} \cup {<<kind>> : kind \in ClaudeKinds}

\* a run of observe_claude_transcript during which the agent appends the
\* entries gained to the transcript, after the parse and before the file is
\* read again for the last uuid
ObserveClaudeTranscriptInFlight ==
    /\ ObserverOps < MaxObserverOps
    /\ \E dry \in BOOLEAN, o \in LiveOutcomes(today, ReadOrEmpty(observations_file)),
          gained \in InFlight :
          /\ ObserverOps + Len(gained) < MaxObserverOps
          /\ \A eff \in {observe_claude_transcript_read(dry, o, transcripts.claude \o gained)} :
                /\ entry' = "observe_claude_transcript"
                /\ odry' = dry
                /\ ocalls' = eff.calls
                /\ oresult' = eff.ret
                /\ observations_file' = eff.obs
                /\ cursor_file' = eff.cursor
                /\ index' = IF eff.reindexed THEN Reindexed(eff.obs, reflections_file)
                                              ELSE index
          /\ transcripts' = [transcripts EXCEPT !.claude = @ \o gained]
    /\ oruns' = oruns + 1
    /\ UNCHANGED observerFrame

InFlightNext == TranscriptGrows \/ ObserveClaudeTranscriptInFlight
SpecInFlight == ObserveInit /\ [][InFlightNext]_vars

(* observe_all_codex on a session whose cursor an older version wrote *)

\* the largest line offset a legacy cursor holds, and the most lines the
\* session has at the start
MaxLineOffset == 4

\* the lines of a Codex session: a message, a record that is no message, a
\* record with a role and no content
CodexLineKinds == CodexKinds \cup {"blank"}
CodexSessions == UNION {[1..n -> CodexLineKinds] : n \in 0..MaxLineOffset}

\* the cursor file: absent, or written with a line offset (before message
\* counts were stored, observe.py:141-146) or a message count
CodexCursorFiles ==
    {[exists |-> FALSE, text |-> <<>>]}
        \cup {save_cursor([exists |-> FALSE, text |-> <<>>],
                          dict_set(EmptyDict, CodexKey, v)) : v \in 1..MaxLineOffset}

\* config.min_messages: the default and the smallest threshold
CodexMinMessages == {1, 5}

CodexInit ==
    /\ PipeIdle /\ ChunkIdle /\ StampIdle /\ TrimIdle /\ CursorIdle
    /\ cursor_file \in CodexCursorFiles
    /\ transcripts \in {[claude |-> <<>>, codex |-> c, other |-> <<>>] : c \in CodexSessions}
    /\ command = CommandIdle
    /\ min_messages \in CodexMinMessages
    /\ entry = "none"
    /\ odry = FALSE
    /\ ocalls = <<>>
    /\ oresult = RetNone
    /\ oruns = 0

\* the agent appends a line to the session
CodexGrows ==
    /\ ObserverOps < MaxObserverOps
    /\ \E kind \in CodexLineKinds :
          transcripts' = [transcripts EXCEPT !.codex = Append(@, kind)]
    /\ ResultTaken
    /\ UNCHANGED <<observations_file, cursor_file, index, oruns, observerFrame>>

CodexNext == CodexGrows \/ ObserveAllCodex
SpecCodex == CodexInit /\ [][CodexNext]_vars

----------------------------------------------------------------------------
(* Properties *)

\* the Date Sections of a text, in order
DateSections(text) == SelectSeq(SplitDateSections(text), IsDateSection)
SectionDates(text) == {text[i].v : i \in SplitPoints(text)}

\* the "Last reflected" date read back from a file; an absent line counts as
\* the epoch, a day before every day of the model
Epoch == 0 - 1000
LastReflectedDay(f) ==
    IF _parse_last_reflected(ReadOrEmpty(f)).some
    THEN _parse_last_reflected(ReadOrEmpty(f)).d ELSE Epoch

\* a Reflector run starts in this step
RunStarts == pc = "idle" /\ runs' = runs + 1

\* C1: Reflector idempotence.  If the previous run was a successful non-dry
\* run that stamped "Last reflected" = D, and the observations document has no
\* Date Section later than D when the next run starts, that run returns None,
\* makes no oracle call and leaves the reflections document unchanged.
C1_IdempotentSecondRun ==
    [][ ( /\ RunStarts
          /\ outcome = "written"
          /\ _parse_last_reflected(ReadOrEmpty(reflections_file)).some
          /\ \A d \in SectionDates(ReadOrEmpty(observations_file)) :
                d <= LastReflectedDay(reflections_file) )
        => ( /\ pc' = "idle"
             /\ outcome' = "nothing"
             /\ result' = None
             /\ reflections_file' = reflections_file ) ]_vars

\* the Date Sections handed to the oracle so far in this run, in call order
RECURSIVE SentSections(_)
SentSections(cs) ==
    IF cs = <<>> THEN <<>>
    ELSE SentSections(SubSeq(cs, 1, Len(cs) - 1)) \o DateSections(cs[Len(cs)].observations)

IsPrefix(a, b) == Len(a) <= Len(b) /\ SubSeq(b, 1, Len(a)) = a

AllSent == pc \in {"stamp", "stamped", "written", "trimmed"}

\* C2: with an existing "Last reflected" date L, the observations handed to
\* the oracle are the document header and exactly the Date Sections dated
\* L or later, whole and in order; no section dated before L is ever sent.
C2_OnlySectionsFromLastReflected ==
    (pc # "idle" /\ _parse_last_reflected(reflections).some) =>
        LET L == _parse_last_reflected(reflections).d
            wanted == SelectSeq(DateSections(raw_observations),
                                LAMBDA x : SectionDate(x) >= L)
            header == Head(SplitDateSections(raw_observations))
        IN  /\ \A i \in 1..Len(calls) :
                 /\ IsPrefix(header, calls[i].observations)
                 /\ \A d \in SectionDates(calls[i].observations) : d >= L
            /\ IsPrefix(SentSections(calls), wanted)
            /\ AllSent => SentSections(calls) = wanted

\* C2 witness: a pass that sent the boundary section and left out an older one
C2_Witness ==
    /\ AllSent
    /\ _parse_last_reflected(reflections).some
    /\ \E d \in SectionDates(raw_observations) : d < _parse_last_reflected(reflections).d
    /\ \E i \in 1..Len(calls) :
          _parse_last_reflected(reflections).d \in SectionDates(calls[i].observations)

\* C3: the "Last reflected" date read back from the reflections document
\* never decreases.
C3_LastReflectedMonotone ==
    [][LastReflectedDay(reflections_file') >= LastReflectedDay(reflections_file)]_vars

\* C4: stamping always executes: the text returned and written by
\* run_reflector carries, as its "Last reflected" date, the maximum date over
\* all Date Sections of the unfiltered observations document.
C4_StampAlwaysExecutes ==
    /\ (pc = "stamped" /\ _extract_latest_observation_date(raw_observations).some)
          => _parse_last_reflected(result.text)
                = _extract_latest_observation_date(raw_observations)
    /\ (pc = "written" /\ _extract_latest_observation_date(raw_observations).some)
          => _parse_last_reflected(reflections_file.text)
                = _extract_latest_observation_date(raw_observations)

----------------------------------------------------------------------------
(* Properties of _stamp_timestamps *)

\* the lines of a text: the token runs between newlines
RECURSIVE SplitLines(_, _)
SplitLines(s, line) ==
    IF s = <<>> THEN <<line>>
    ELSE IF Head(s) = NL THEN <<line>> \o SplitLines(Tail(s), <<>>)
    ELSE SplitLines(Tail(s), Append(line, Head(s)))

Lines(s) == SplitLines(s, <<>>)

\* a metadata line: one token of the given kinds, alone on its line
IsLineOf(line, kinds) == Len(line) = 1 /\ line[1].k \in kinds

\* a sequence of lines without its first line of the given kinds
RECURSIVE DropFirst(_, _)
DropFirst(ls, kinds) ==
    IF ls = <<>> THEN <<>>
    ELSE IF IsLineOf(Head(ls), kinds) THEN Tail(ls)
    ELSE <<Head(ls)>> \o DropFirst(Tail(ls), kinds)

\* the lines of a text other than its two metadata lines (the first line of
\* each shape, which is the one the regular expressions find)
OtherLines(s) == DropFirst(DropFirst(Lines(s), {"U"}), {"R", "RT"})

RECURSIVE IsSubseq(_, _)
IsSubseq(a, b) ==
    IF a = <<>> THEN TRUE
    ELSE IF b = <<>> THEN FALSE
    ELSE IF Head(a) = Head(b) THEN IsSubseq(Tail(a), Tail(b))
    ELSE IsSubseq(a, Tail(b))

NonBlank(ls) == SelectSeq(ls, LAMBDA l : l # <<>>)

\* C5: after stamping, the result has a "Last updated" line carrying the
\* run's current time, whichever of the two metadata lines the oracle output
\* already had.  Stated for the outputs that begin with a heading line (where
\* a missing line has a place to be inserted); it fails already there.
C5_UpdatedAlwaysStamped ==
    (stDone /\ TitleMatch(stIn)) => \E i \in UpdatedMatches(stOut) : stOut[i] = U(StampNow)

\* C6: stamping changes only the two metadata lines: every other line of the
\* oracle output is in the result, unchanged and in the same order, and the
\* result has no other line except a blank one that comes with inserted lines.
C6_StampKeepsContent ==
    stDone =>
        /\ IsSubseq(OtherLines(stIn), OtherLines(stOut))
        /\ NonBlank(OtherLines(stOut)) = NonBlank(OtherLines(stIn))

\* C6 witness: both lines were inserted after the title of a document that
\* has a named section with a body
C6_Witness ==
    /\ stDone
    /\ UpdatedMatches(stIn) = {} /\ ReflectedMatches(stIn) = {}
    /\ UpdatedMatches(stOut) # {} /\ ReflectedMatches(stOut) # {}
    /\ \E i \in 1..Len(stIn) : stIn[i] = S(1)
    /\ \E i \in 1..Len(stIn) : stIn[i] = B(20)

----------------------------------------------------------------------------
(* Properties of _chunk_observations *)

\* the Date Sections of all chunks, in chunk order
RECURSIVE ChunkedSections(_)
ChunkedSections(cs) ==
    IF cs = <<>> THEN <<>> ELSE DateSections(Head(cs)) \o ChunkedSections(Tail(cs))

\* the chunks without the document header each of them starts with
RECURSIVE Bodies(_, _)
Bodies(cs, header) ==
    IF cs = <<>> THEN <<>>
    ELSE SubSeq(Head(cs), Len(header) + 1, Len(Head(cs))) \o Bodies(Tail(cs), header)

ChunkHeader == Head(SplitDateSections(chIn))
HasSections(text) == DateSections(text) # <<>>

\* C7: chunking never splits a Date Section: every chunk starts with the
\* document header, and the chunks without it, concatenated in order, are
\* exactly the Date Sections of the input in their order, each one whole and
\* in exactly one chunk.
C7_ChunksPartitionSections ==
    (chDone /\ HasSections(chIn)) =>
        /\ \A i \in 1..Len(chOut) : IsPrefix(ChunkHeader, chOut[i])
        /\ Bodies(chOut, ChunkHeader) = Concat(DateSections(chIn))
        /\ ChunkedSections(chOut) = DateSections(chIn)

\* C7 witness: three sections spread over two or more chunks, one of which
\* holds two sections
C7_Witness ==
    /\ chDone
    /\ Len(DateSections(chIn)) = 3
    /\ Len(chOut) >= 2
    /\ \E i \in 1..Len(chOut) : Len(DateSections(chOut[i])) = 2

\* C8: every chunk holds one or more Date Sections: no empty or header-only
\* chunk is emitted.
C8_NoChunkWithoutSection ==
    (chDone /\ HasSections(chIn)) =>
        \A i \in 1..Len(chOut) : HasSections(chOut[i])

\* C9: chunk budget (63,000 characters).  A chunk that holds two or more
\* sections is within the budget, at every section added to it; a section
\* that exceeds the budget on its own is emitted whole and alone in its
\* chunk; and chunking ends with no more chunks than sections plus one.
C9_ChunkBudget ==
    (chDone /\ HasSections(chIn)) =>
        /\ budget_chars = 63000
        /\ \A i \in 1..Len(chOut) :
              /\ Len(DateSections(chOut[i])) >= 2 => StrLen(chOut[i]) <= 63000
              /\ \A j \in 1..Len(DateSections(chOut[i])) :
                    StrLen(DateSections(chOut[i])[j]) > 63000
                        => Len(DateSections(chOut[i])) = 1
        /\ \A k \in 1..Len(DateSections(chIn)) :
              StrLen(DateSections(chIn)[k]) > 63000 =>
                  \E i \in 1..Len(chOut) : DateSections(chOut[i]) = <<DateSections(chIn)[k]>>
        /\ Len(chOut) <= Len(DateSections(chIn)) + 1

\* C9 witness: an input with an oversized section and a chunk of two
\* sections that fills the budget to the last character
C9_Witness ==
    /\ chDone
    /\ \E k \in 1..Len(DateSections(chIn)) : StrLen(DateSections(chIn)[k]) > 63000
    /\ \E i \in 1..Len(chOut) :
          Len(DateSections(chOut[i])) = 2 /\ StrLen(chOut[i]) = 63000

----------------------------------------------------------------------------
(* Properties of the chunked fold *)

\* C10: in a chunked fold over N chunks the oracle is called once per chunk,
\* in document order; call 1 is given the existing reflections, call i+1 the
\* text returned by call i, and the fold's result is the text returned by
\* call N.
C10_FoldIsSequential ==
    mode = "chunked" =>
        /\ Len(calls) <= Len(chunks)
        /\ \A i \in 1..Len(calls) : calls[i].i = i /\ calls[i].observations = chunks[i]
        /\ Len(calls) >= 1 => calls[1].reflections = reflections
        /\ \A i \in 1..(Len(calls) - 1) : calls[i + 1].reflections = calls[i].out
        /\ pc = "oracle" => Len(calls) < Len(chunks)
        /\ AllSent => /\ Len(calls) = Len(chunks)
                      /\ running_reflections = calls[Len(chunks)].out

\* C10 witness: a finished fold over two or more chunks that started from
\* existing reflections and whose calls returned different texts
C10_Witness ==
    /\ mode = "chunked"
    /\ AllSent
    /\ Len(chunks) >= 2
    /\ reflections # <<>>
    /\ calls[1].out # reflections
    /\ calls[2].out # calls[1].out

\* the prompt of a call carries no note
NoNote == [i |-> 0, total |-> 0]

\* C11: in the chunked fold over N chunks the prompt of call i < N carries
\* the note "This is chunk i of N" with its own i and N, and the prompt of
\* the last call (the only one when N = 1) is the reflector prompt without
\* the note.
C11_NoteOnAllButLast ==
    mode = "chunked" =>
        \A k \in 1..Len(calls) :
            calls[k].note = IF k = Len(chunks) THEN NoNote
                            ELSE [i |-> k, total |-> Len(chunks)]

\* C11 witness: a finished fold over three chunks, the first two calls with
\* their notes and the last without
C11_Witness ==
    /\ mode = "chunked"
    /\ AllSent
    /\ Len(chunks) = 3
    /\ calls[1].note = [i |-> 1, total |-> 3]
    /\ calls[2].note = [i |-> 2, total |-> 3]
    /\ calls[3].note = NoNote

\* a finished fold of one chunk: the only call has no note
C11_OneChunk == mode = "chunked" /\ AllSent /\ Len(chunks) = 1

----------------------------------------------------------------------------
(* Properties of the size estimate *)

\* len(system_prompt) + len(reflections) + len(observations) of the run
TotalInputChars == SystemPromptLen + StrLen(reflections) + StrLen(observations)

\* the estimate TotalInputChars / 3.5 against the budget of 30,000 tokens
UnderBudget == TotalInputChars * CharsPerTokenDen < MaxInputTokens * CharsPerTokenNum
AtBudget == TotalInputChars * CharsPerTokenDen = MaxInputTokens * CharsPerTokenNum

\* the run makes one call, with the whole reflections and filtered observations
OneWholeCall ==
    /\ mode = "single"
    /\ Len(calls) <= 1
    /\ AllSent => Len(calls) = 1
    /\ \A k \in 1..Len(calls) : /\ calls[k].reflections = reflections
                                /\ calls[k].observations = observations
                                /\ calls[k].note = NoNote

\* C12 as stated: an estimate under the budget gives one oracle call with the
\* whole existing reflections and all filtered observations; an estimate at or
\* over the budget gives the chunked fold.
C12_UnderBudgetSingleElseChunked ==
    pc # "idle" => IF UnderBudget THEN OneWholeCall ELSE mode = "chunked"

\* C12 amended: an estimate under or exactly at the budget gives the one
\* call; only an estimate over the budget gives the chunked fold.
C12_AtMostBudgetSingleElseChunked ==
    pc # "idle" => IF UnderBudget \/ AtBudget THEN OneWholeCall ELSE mode = "chunked"

\* C12 witness: a finished run whose estimate was exactly the budget and
\* that made the one call
C12_Witness ==
    /\ AllSent
    /\ AtBudget
    /\ mode = "single"
    /\ Len(calls) = 1

\* a chunked run with an estimate over the budget
C12_Over == pc # "idle" /\ ~UnderBudget /\ ~AtBudget /\ mode = "chunked"

----------------------------------------------------------------------------
(* Properties of the run as a whole *)

Raised == {"raised", "raised in fold"}

\* the run ends in this step without having reached the write
RunAborts == pc = "oracle" /\ pc' = "idle"

\* the raise ends the run and leaves everything as the run found it
RaiseKeepsState ==
    RunAborts =>
        /\ outcome' \in Raised
        /\ result' = None
        /\ calls' = <<>> /\ runs' = runs
        /\ reflections_file' = reflections_file
        /\ ReadOrEmpty(reflections_file') = reflections
        /\ observations_file' = observations_file
        /\ ReadOrEmpty(observations_file') = raw_observations
        /\ index' = index

\* no step of the oracle phase touches the documents or the index
OraclePhaseWritesNothing ==
    pc \in {"oracle", "stamp"} =>
        /\ reflections_file' = reflections_file
        /\ observations_file' = observations_file
        /\ index' = index

\* past the oracle phase every chunk's call has returned
AllCallsReturned ==
    pc \in {"stamp", "stamped", "written", "trimmed"} =>
        /\ Len(calls) = Len(chunks)
        /\ \A k \in 1..Len(calls) : calls[k].i = k

\* C13: when an oracle call of a run raises (the single call, or a chunk
\* call after earlier chunks succeeded) the run ends there with no result
\* and no further call, and the reflections document, the observations
\* document and the index are as they were when the run started; no step
\* before the end of the oracle calls touches them, and the write is reached
\* only when every chunk's call has returned.
C13_RaiseLeavesStateUntouched ==
    /\ [][RaiseKeepsState]_vars
    /\ [][OraclePhaseWritesNothing]_vars
    /\ []AllCallsReturned

\* C13 witness: a fold ended by a raise after a chunk had been folded, with a
\* reflections document of an earlier run still in place
C13_Witness ==
    /\ pc = "idle"
    /\ outcome = "raised in fold"
    /\ reflections_file.exists
    /\ observations_file.exists
    /\ index.built

\* the named sections ("## ..." headings other than dates) of a reflections text
NamedSections(text) == {text[i] : i \in {j \in DOMAIN text : text[j].k = "S"}}

\* the last oracle call of the run returned an empty or whitespace-only text
BlankResponse == pc = "stamped" /\ strip(running_reflections) = <<>>

\* a blank response leaves an existing reflections document as it is
BlankResponseNotWritten ==
    (BlankResponse /\ reflections_file.exists /\ NamedSections(reflections_file.text) # {})
        => reflections_file' = reflections_file

\* C14: an empty or whitespace-only oracle response is not written over the
\* reflections document: the existing document and its named sections
\* survive the run.
C14_EmptyResponseNotWritten == [][BlankResponseNotWritten]_vars

\* the Date Sections of the observations document that are candidates for a
\* run starting now: all of them on a first run, else those dated on or after
\* the "Last reflected" date
Candidates ==
    LET L == _parse_last_reflected(ReadOrEmpty(reflections_file))
    IN  SelectSeq(DateSections(ReadOrEmpty(observations_file)),
                  LAMBDA x : ~L.some \/ SectionDate(x) >= L.d)

\* the run starting in this step returns None without an oracle call
ReturnsNothingToDo ==
    /\ pc' = "idle"
    /\ outcome' = "nothing"
    /\ result' = None
    /\ calls' = <<>>
    /\ reflections_file' = reflections_file

NoCandidateNoCall == (RunStarts /\ Candidates = <<>>) => ReturnsNothingToDo

\* C15: a run for which no Date Section is a candidate returns None with no
\* oracle call, both when every section is older than the "Last reflected"
\* date and when there is no such date and the observations document has a
\* header but no Date Section.
C15_NoCandidateNoCall == [][NoCandidateNoCall]_vars

\* the first half of C15 alone: with a "Last reflected" date and no section
\* on or after it
NoCandidateSinceNoCall ==
    (RunStarts /\ Candidates = <<>>
        /\ _parse_last_reflected(ReadOrEmpty(reflections_file)).some)
    => ReturnsNothingToDo
C15_StampedHalf == [][NoCandidateSinceNoCall]_vars

\* the observations document is missing, empty or whitespace-only
BlankObservations == strip(ReadOrEmpty(observations_file)) = <<>>

BlankObservationsNothingDone ==
    (RunStarts /\ BlankObservations) =>
        /\ ReturnsNothingToDo
        /\ observations_file' = observations_file
        /\ index' = index

\* C16: with a missing, empty or whitespace-only observations document
\* run_reflector returns None, makes no oracle call and writes nothing: the
\* reflections document is neither created nor changed and neither the trim
\* nor the index rebuild happens.
C16_BlankObservationsNothingDone == [][BlankObservationsNothingDone]_vars

\* C16 witness: a run returned None on an observations document that exists
\* and holds white space only (what the trim of the run before left)
C16_Witness ==
    /\ pc = "idle"
    /\ outcome = "nothing"
    /\ observations_file.exists
    /\ observations_file.text # <<>>
    /\ BlankObservations

\* a run returned None with no observations document, and created nothing
C16_Missing ==
    /\ pc = "idle" /\ outcome = "nothing" /\ runs > 0
    /\ ~observations_file.exists /\ ~reflections_file.exists

\* the reflections the run read have no "Last reflected" line of the shape
\* of _LAST_REFLECTED_RE (the document may be absent)
NoReflectedLine == pc # "idle" /\ ReflectedMatches(reflections) = {}

\* the number of tokens of the header: the text before the first Date Section
HeaderLen(text) ==
    IF SplitPoints(text) = {} THEN Len(text) ELSE Min(SplitPoints(text)) - 1

\* what the calls so far were given after the header, end to end
RECURSIVE SentAfterHeader(_, _)
SentAfterHeader(cs, n) ==
    IF cs = <<>> THEN <<>>
    ELSE SentAfterHeader(SubSeq(cs, 1, Len(cs) - 1), n)
            \o SubSeq(cs[Len(cs)].observations, n + 1, Len(cs[Len(cs)].observations))

\* C17: a run that finds no reflections document, or one without a "Last
\* reflected" line of the expected shape, goes on as a first run: nothing is
\* filtered out, and every Date Section of the observations document is in
\* the oracle input (the calls are given, after the header, the Date
\* Sections of the document from the first on, and all of them once the last
\* call has returned).
C17_NoLineMeansFirstRun ==
    NoReflectedLine =>
        \A n \in {HeaderLen(raw_observations)} :
            \A sent \in {SentAfterHeader(calls, n)} :
                /\ pc \in {"oracle", "stamp", "stamped", "written", "trimmed"}
                /\ observations = raw_observations
                /\ \A k \in 1..Len(calls) :
                      IsPrefix(SubSeq(raw_observations, 1, n), calls[k].observations)
                /\ IsPrefix(sent, SubSeq(raw_observations, n + 1, Len(raw_observations)))
                /\ AllSent => Len(sent) = Len(raw_observations) - n

\* C17 witness: all calls of a run have returned; the run read an existing
\* reflections document without the line, and two or more Date Sections, one
\* of them of an earlier day, were all sent
C17_Witness ==
    /\ NoReflectedLine
    /\ AllSent
    /\ reflections # <<>>
    /\ Len(DateSections(raw_observations)) >= 2
    /\ \E d \in SectionDates(raw_observations) : d < today
    /\ SentSections(calls) = DateSections(raw_observations)

\* no step of a dry run changes a document or the index
DryRunWritesNothing ==
    (pc # "idle" /\ dry_run) =>
        /\ reflections_file' = reflections_file
        /\ observations_file' = observations_file
        /\ index' = index

\* a dry run ends right after the stamping, returning the stamped text
DryRunReturnsStamped ==
    (pc = "stamped" /\ dry_run) =>
        /\ pc' = "idle"
        /\ outcome' = "dry"
        /\ result.some /\ result' = result

\* C18: with dry_run, run_reflector returns the stamped reflections text and
\* changes no persisted state: the reflections document is neither created
\* nor modified, the observations document is not trimmed and the index is
\* not rebuilt.
C18_DryRunChangesNothing ==
    /\ [][DryRunWritesNothing]_vars
    /\ [][DryRunReturnsStamped]_vars

\* C18 witness: a dry run returned a text; there is still no reflections
\* document and no index, and a section older than the retention window is
\* still in the observations document
C18_Witness ==
    /\ pc = "idle"
    /\ outcome = "dry"
    /\ result.some
    /\ ~reflections_file.exists
    /\ search_backend = "bm25" /\ ~index.built
    /\ \E d \in SectionDates(observations_file.text) :
          d < today - observation_retention_days

\* a step of the Reflector (the other programs count their writes)
ReflectorStep == writes' = writes /\ today' = today

\* what _write_reflections leaves for the result of this run
WrittenResult == File(rstrip(result.text) \o <<NL>>)

\* the reflections document is overwritten, whole, once all calls returned
WriteAfterCalls ==
    (ReflectorStep /\ (reflections_file' # reflections_file \/ pc' = "written")) =>
        /\ pc = "stamped" /\ pc' = "written"
        /\ ~dry_run
        /\ Len(calls) = Len(chunks) /\ Len(calls) >= 1
        /\ reflections_file' = WrittenResult

\* the trim comes after the write of the same run, and in no other run
TrimAfterWrite ==
    (ReflectorStep /\ (observations_file' # observations_file \/ pc' = "trimmed")) =>
        /\ pc = "written" /\ pc' = "trimmed"
        /\ ~dry_run
        /\ reflections_file = WrittenResult
        /\ observations_file' = _trim_old_observations(observations_file, today)

\* the index rebuild comes after the trim and ends the run
ReindexAfterTrim ==
    (ReflectorStep /\ (index' # index \/ pc = "trimmed")) =>
        /\ pc = "trimmed" /\ pc' = "idle"
        /\ outcome' = "written"
        /\ reflections_file' = reflections_file
        /\ observations_file' = observations_file

\* C19: in a run that is not a dry run the steps come in the order: all
\* oracle calls, the full overwrite of the reflections document, the
\* retention trim, the index rebuild; the trim never runs in a run that has
\* not written the reflections document first (nothing to do, dry run,
\* oracle failure).
C19_WriteThenTrimThenReindex ==
    /\ [][WriteAfterCalls]_vars
    /\ [][TrimAfterWrite]_vars
    /\ [][ReindexAfterTrim]_vars

\* C19 witness: a fold of two or more chunks has been written and the trim
\* has just removed a section older than the window; the index is not yet
\* rebuilt
C19_Witness ==
    /\ pc = "trimmed"
    /\ mode = "chunked" /\ Len(calls) >= 2
    /\ reflections_file = WrittenResult
    /\ \E d \in SectionDates(raw_observations) :
          /\ d < today - observation_retention_days
          /\ d \notin SectionDates(observations_file.text)
    /\ search_backend = "bm25"
    /\ index.obs # observations_file.text

----------------------------------------------------------------------------
(* Properties of the retention trim *)

\* the step in which _trim_old_observations runs
TrimStep == ReflectorStep /\ pc = "written" /\ pc' = "trimmed"

\* sections without their trailing white space (the trim ends the document
\* with one newline)
Rstripped(sections) == [i \in 1..Len(sections) |-> rstrip(sections[i])]

\* the first day of the retention window
Cutoff == today - observation_retention_days

TrimKeepsWindow ==
    TrimStep =>
        \A old \in {observations_file.text}, new \in {observations_file'.text} :
            LET inWindow == SelectSeq(DateSections(old),
                                      LAMBDA x : SectionDate(x) >= Cutoff)
            IN  /\ observations_file'.exists
                /\ Rstripped(DateSections(new)) = Rstripped(inWindow)
                /\ \A d \in SectionDates(new) : d >= Cutoff
                /\ rstrip(HeaderOf(SplitDateSections(new), <<>>))
                      = rstrip(HeaderOf(SplitDateSections(old), <<>>))

\* C20: the trim with the retention window of 7 days keeps exactly the Date
\* Sections dated on or after (current UTC date - 7 days), in their order,
\* and removes exactly the older ones; a section dated at the cutoff is kept,
\* and the header is kept.
C20_TrimKeepsWindow == [][TrimKeepsWindow]_vars

\* C20 witness: the trim has just kept a section dated at the cutoff and
\* removed one dated the day before
C20_Witness ==
    /\ pc = "trimmed"
    /\ Cutoff \in SectionDates(observations_file.text)
    /\ (Cutoff - 1) \in SectionDates(raw_observations)
    /\ (Cutoff - 1) \notin SectionDates(observations_file.text)

----------------------------------------------------------------------------
(* Properties of _trim_old_observations on any document *)

\* the non-dated header of a document: what stands before its first Date
\* Section
DocHeader(text) == SubSeq(text, 1, HeaderLen(text))

\* C21: the trim never removes the non-dated header of the document, even
\* when every Date Section is trimmed (the header stays at the start of the
\* document, whole up to the white space at the end of the document); on a
\* document with no Date Section it changes nothing but the white space at
\* the end; and when the file does not exist it creates nothing.
C21_TrimKeepsHeader ==
    trDone =>
        /\ trOut.exists = trIn.exists
        /\ ~trIn.exists => trOut = trIn
        /\ trIn.exists =>
              /\ IsPrefix(rstrip(DocHeader(trIn.text)), trOut.text)
              /\ SplitPoints(trOut.text) # {} => DocHeader(trOut.text) = DocHeader(trIn.text)
              /\ SplitPoints(trOut.text) = {} =>
                    trOut.text = rstrip(DocHeader(trIn.text)) \o <<NL>>
              /\ SplitPoints(trIn.text) = {} => trOut.text = rstrip(trIn.text) \o <<NL>>

\* C21 witness: every Date Section of a document with a title was trimmed
\* and the title is still there
C21_Witness ==
    /\ trDone
    /\ Len(DateSections(trIn.text)) >= 2
    /\ DateSections(trOut.text) = <<>>
    /\ trOut.text = <<H, NL>>

\* the trim of a document without Date Sections, and of an absent file
C21_NoSections ==
    /\ trDone /\ trIn.exists /\ SplitPoints(trIn.text) = {}
    /\ trOut.text # trIn.text /\ strip(trOut.text) = <<H, NL, NL, B(41)>>
C21_Absent == trDone /\ ~trIn.exists /\ ~trOut.exists

----------------------------------------------------------------------------
(* Properties of the cursor store *)

\* C30: load_cursor returns an empty mapping when there is no cursor file;
\* save_cursor replaces the whole persisted mapping: load_cursor after
\* save_cursor(m) returns exactly m, whatever the file held before.
C30_SaveReplacesLoadReturns ==
    /\ (csStep = "loaded" /\ ~cursor_file.exists) => csLoaded = [ok |-> TRUE, dict |-> EmptyDict]
    /\ csStep \in {"saved", "saved and loaded"} => cursor_file = File(json_dumps(csIn))
    /\ csStep = "saved and loaded" => csLoaded = [ok |-> TRUE, dict |-> csIn]

\* C30 witness: a mapping with the one key of the Codex session was saved
\* (over any of the files, among them files that held the other key) and
\* read back with that key alone
C30_Witness ==
    /\ csStep = "saved and loaded"
    /\ csIn = <<[key |-> CodexKey, val |-> 2]>>
    /\ Keys(csLoaded.dict) = {CodexKey}

\* a load with no cursor file
C30_NoFile == csStep = "loaded" /\ ~cursor_file.exists

----------------------------------------------------------------------------
(* Properties of the Observer *)

\* an entry point of the Observer runs in this step
ObserverRuns == oruns' = oruns + 1

LiveEntries == {"observe_claude_transcript", "observe_all_codex"}
BackfillEntry == "observe_claude_transcript_backfill"

\* the new messages an entry point finds for its transcript, read with the
\* cursor as persisted
NewClaudeMessages ==
    parse_claude(transcripts.claude, dict_get(load_cursor(cursor_file).dict, ClaudeKey))
NewCodexMessages ==
    LET all_messages == parse_codex(transcripts.codex)
        after_index == AfterIndex(transcripts.codex,
                                  dict_get(load_cursor(cursor_file).dict, CodexKey))
    IN  SubSeq(all_messages, after_index + 1, Len(all_messages))
NewMessages(name) ==
    IF name = "observe_all_codex" THEN NewCodexMessages ELSE NewClaudeMessages

\* the oracle calls of a run that returned a text
ReturnedCalls(cs) == SelectSeq(cs, LAMBDA c : ~c.out.raised)

\* a run in which no oracle call returned, or a dry run, leaves the cursor
CursorKeptWithoutCompression ==
    (ObserverRuns /\ (odry' \/ ReturnedCalls(ocalls') = <<>>)) => cursor_file' = cursor_file

LiveCursorKeptWithoutCompression ==
    (ObserverRuns /\ entry' \in LiveEntries /\ (odry' \/ ReturnedCalls(ocalls') = <<>>))
        => cursor_file' = cursor_file
C23_LiveHalf == [][LiveCursorKeptWithoutCompression]_vars

\* the run of this step is offered messages, fewer than min_messages
BelowThreshold(name) ==
    /\ ObserverRuns
    /\ entry' = name
    /\ load_cursor(cursor_file).ok
    /\ NewMessages(name) # <<>>
    /\ Len(NewMessages(name)) < min_messages

BelowThresholdNothingDone ==
    /\ \A name \in LiveEntries \cup {BackfillEntry} :
          BelowThreshold(name) =>
              /\ ocalls' = <<>>
              /\ observations_file' = observations_file
              /\ oresult' = CASE name = "observe_all_codex" -> Ret("list", <<>>, 0)
                              [] name = BackfillEntry -> Ret("count", <<>>, 0)
                              [] OTHER -> RetNone
    /\ \A name \in LiveEntries :
          BelowThreshold(name) =>
              /\ cursor_file' = cursor_file
              /\ index' = index
              /\ \A old \in {NewMessages(name)} : NewMessages(name)' = old

\* every chunk of a backfill run that reaches the threshold gets one oracle
\* call, with its messages, and no other chunk gets one
BackfillCallsPerChunk ==
    (ObserverRuns /\ entry' = BackfillEntry /\ load_cursor(cursor_file).ok) =>
        \E chunk_size \in ChunkSizes :
            LET big == SelectSeq(NewChunks(chunk_size), LAMBDA c : Len(c) >= min_messages)
            IN  /\ Len(ocalls') <= Len(big)
                /\ \A k \in 1..Len(ocalls') : ocalls'[k].messages = Len(big[k])
                /\ oresult'.kind # "raised" => Len(ocalls') = Len(big)

\* C24: with fewer new messages than min_messages, run_observer and
\* run_observer_backfill return None with no oracle call and no write to the
\* observations document (an entry point then has nothing to report), and the
\* live entry points leave the cursor unchanged, so that the same messages
\* are offered again, with later ones, on the next run.
C24_BelowThresholdNothingDone ==
    /\ [][BelowThresholdNothingDone]_vars
    /\ [][BackfillCallsPerChunk]_vars

\* C24 witness: a live run was offered fewer messages than the threshold and
\* returned None; the messages are still new, and the document and the
\* cursor entry of an earlier run are in place
C24_Witness ==
    /\ entry = "observe_claude_transcript"
    /\ ~odry
    /\ oresult = RetNone
    /\ ocalls = <<>>
    /\ Len(NewClaudeMessages) >= 1
    /\ Len(NewClaudeMessages) < min_messages
    /\ observations_file.exists
    /\ dict_get(load_cursor(cursor_file).dict, ClaudeKey).some

\* a live run that was offered, together, messages that an earlier run had
\* left below the threshold
C24_OfferedAgain ==
    /\ entry = "observe_claude_transcript"
    /\ oruns >= 2
    /\ Len(ocalls) = 1 /\ ocalls[1].messages >= min_messages
    /\ ~cursor_file.exists

\* a dry run of an entry point writes nothing
ObserverDryRunWritesNothing ==
    (ObserverRuns /\ odry') =>
        /\ observations_file' = observations_file
        /\ cursor_file' = cursor_file
        /\ index' = index

\* the run of this step is a dry run whose oracle calls all returned
DryRunReturned ==
    /\ ObserverRuns
    /\ odry'
    /\ ocalls' # <<>>
    /\ oresult'.kind # "raised"

\* the text the last oracle call of the run returned
LastOutput(cs) == cs[Len(cs)].out.text

RECURSIVE TotalChars(_)
TotalChars(cs) ==
    IF cs = <<>> THEN 0 ELSE StrLen(Head(cs).out.text) + TotalChars(Tail(cs))

\* every entry point returns the oracle output
DryRunReturnsOutput ==
    DryRunReturned =>
        /\ oresult'.kind \in {"text", "list"}
        /\ oresult'.text = LastOutput(ocalls')

\* the live entry points return the oracle output (observe_all_codex in a
\* list, which leaves out an empty output); the backfill entry point returns
\* the number of characters of the outputs of its calls
DryRunReturnsOutputOrCount ==
    DryRunReturned =>
        CASE entry' = "observe_claude_transcript" -> oresult' = RetText(LastOutput(ocalls'))
          [] entry' = "observe_all_codex" ->
                oresult' = Ret("list", LastOutput(ocalls'),
                               IF LastOutput(ocalls') = <<>> THEN 0 ELSE 1)
          [] OTHER -> oresult' = Ret("count", <<>>, TotalChars(ocalls'))

\* C25 as stated: with dry_run every Observer entry point returns the oracle
\* output and writes nothing: the observations document, the persisted
\* cursor and the search index are unchanged.
C25_DryRunReturnsOutputWritesNothing ==
    /\ [][ObserverDryRunWritesNothing]_vars
    /\ [][DryRunReturnsOutput]_vars

\* C25 amended: with dry_run no entry point writes anything; run_observer,
\* run_observer_backfill, observe_claude_transcript and observe_all_codex
\* return the oracle output, and observe_claude_transcript_backfill returns
\* the total number of characters of the oracle outputs of its chunks.
C25_DryRunWritesNothingReturnsOutputOrCount ==
    /\ [][ObserverDryRunWritesNothing]_vars
    /\ [][DryRunReturnsOutputOrCount]_vars

\* C25 witness: a dry backfill run made two oracle calls and returned the
\* characters of their outputs; there is still no observations document, no
\* cursor file and no index
C25_Witness ==
    /\ entry = BackfillEntry
    /\ odry
    /\ Len(ocalls) = 2
    /\ oresult = Ret("count", <<>>, 81)
    /\ ~observations_file.exists
    /\ ~cursor_file.exists
    /\ search_backend = "bm25" /\ ~index.built

\* a dry live run returned the oracle output and left a document and a
\* cursor of an earlier run as they were
C25_LiveDry ==
    /\ entry = "observe_claude_transcript"
    /\ odry
    /\ Len(ocalls) = 1
    /\ oresult = RetText(ocalls[1].out.text) /\ oresult.text # <<>>
    /\ observations_file.exists
    /\ observations_file.text = ocalls[1].existing.text
    /\ cursor_file.exists

\* a text without its white space
Solid(text) == SelectSeq(text, LAMBDA t : ~IsSpace(t))

\* the outputs of the calls, in call order, without their white space
RECURSIVE SolidOutputs(_)
SolidOutputs(cs) ==
    IF cs = <<>> THEN <<>> ELSE Solid(Head(cs).out.text) \o SolidOutputs(Tail(cs))

\* no oracle input of a backfill run holds the observations document
BackfillInputWithoutDocument ==
    (ObserverRuns /\ entry' = BackfillEntry) =>
        \A k \in DOMAIN ocalls' : ocalls'[k].mode = "backfill" /\ ocalls'[k].existing = None

\* a backfill run leaves the earlier content in place and puts the outputs
\* of its calls after it, in call order
BackfillAppends ==
    (ObserverRuns /\ entry' = BackfillEntry /\ ~odry') =>
        \A old \in {ReadOrEmpty(observations_file)}, new \in {ReadOrEmpty(observations_file')} :
            /\ IsPrefix(rstrip(old), new)
            /\ Solid(new) = Solid(old) \o SolidOutputs(ReturnedCalls(ocalls'))
            /\ ReturnedCalls(ocalls') = <<>> => observations_file' = observations_file
            /\ ReturnedCalls(ocalls') # <<>> =>
                  /\ observations_file'.exists
                  /\ new # <<>> /\ new[Len(new)] = NL

\* C26: in backfill mode the oracle input never holds the existing
\* observations document, and the write always appends: after a backfill
\* run the earlier content of the document is still there, unchanged and in
\* order (up to the white space at its end), followed by the oracle outputs
\* in call order.
C26_BackfillAppends ==
    /\ [][BackfillInputWithoutDocument]_vars
    /\ [][BackfillAppends]_vars

\* C26 witness: a backfill run has appended a section to a document that the
\* live Observer had written; the title and the section of the live write
\* are still at its start
C26_Witness ==
    /\ entry = BackfillEntry
    /\ ~odry
    /\ Len(ReturnedCalls(ocalls)) = 1
    /\ IsPrefix(<<H, NL, NL, D(today), NL, NL, B(40), NL, NL>>, observations_file.text)
    /\ observations_file.text =
          <<H, NL, NL, D(today), NL, NL, B(40), NL, NL>> \o rstrip(ocalls[1].out.text) \o <<NL>>

\* a backfill run of two chunks has written two different outputs in call
\* order
C26_TwoCalls ==
    /\ entry = BackfillEntry
    /\ ~odry
    /\ Len(ocalls) = 2 /\ Len(ReturnedCalls(ocalls)) = 2
    /\ ocalls[1].out # ocalls[2].out
    /\ observations_file.text =
          rstrip(ocalls[1].out.text) \o <<NL, NL>> \o rstrip(ocalls[2].out.text) \o <<NL>>

\* the text holds a date header (a line starting with "## YYYY-MM-DD") of
\* day t
HasDateHeader(text, t) == \E i \in SplitPoints(text) : text[i] = D(t)

\* the text holds the characters "## YYYY-MM-DD" of day t somewhere
Mentions(text, t) == \E i \in 1..Len(text) : text[i] = D(t)

\* a live entry point has written the output of its oracle call
LiveWrites ==
    /\ ObserverRuns
    /\ entry' \in LiveEntries
    /\ ~odry'
    /\ Len(ReturnedCalls(ocalls')) = 1

\* the document is the output; it holds the earlier content followed by the
\* output (white space apart)
Overwritten(new, out) == Solid(new) = Solid(out)
Appended(old, new, out) == IsPrefix(rstrip(old), new) /\ Solid(new) = Solid(old) \o Solid(out)

LiveOverwritesOnTodayHeader ==
    LiveWrites =>
        \A old \in {ReadOrEmpty(observations_file)}, new \in {ReadOrEmpty(observations_file')},
           out \in {ocalls'[1].out.text} :
            IF observations_file.exists /\ old # <<>> /\ HasDateHeader(out, today)
            THEN Overwritten(new, out)
            ELSE Appended(old, new, out)

\* C27: in live mode, after a successful oracle call, the document is
\* overwritten with the oracle output when it exists, is non-empty and the
\* output holds a date header of the current UTC day; in every other case the
\* output is put after the existing content, which is kept (and the output
\* becomes the document when there is none).
C27_LiveOverwritesOnTodayHeader == [][LiveOverwritesOnTodayHeader]_vars

\* what the code does: the test is on the characters "## <today>" anywhere in
\* the output and on a document that is not blank
LiveOverwritesOnMention ==
    LiveWrites =>
        \A old \in {ReadOrEmpty(observations_file)}, new \in {ReadOrEmpty(observations_file')},
           out \in {ocalls'[1].out.text} :
            IF observations_file.exists /\ strip(old) # <<>> /\ Mentions(out, today)
            THEN new = rstrip(out) \o <<NL>>
            ELSE IF observations_file.exists
            THEN new = rstrip(old) \o <<NL, NL>> \o rstrip(out) \o <<NL>>
            ELSE new = rstrip(out) \o <<NL>>
C27_LiveOverwritesOnMention == [][LiveOverwritesOnMention]_vars

\* a live write has replaced a document by an output that names the current
\* day in the middle of a line and has no date header
C27_MentionOverwrote ==
    /\ entry \in LiveEntries /\ ~odry
    /\ Len(ReturnedCalls(ocalls)) = 1
    /\ Mentions(ocalls[1].out.text, today) /\ ~HasDateHeader(ocalls[1].out.text, today)
    /\ ocalls[1].existing.some /\ strip(ocalls[1].existing.text) # <<>>
    /\ observations_file.text = rstrip(ocalls[1].out.text) \o <<NL>>

\* the Date Sections of the document have different dates
OneSectionPerDate(text) == \A i, j \in SplitPoints(text) : text[i] = text[j] => i = j

\* an Observer run whose oracle outputs have one section per date each, on a
\* document that has one section per date, leaves such a document
WriteKeepsOneSectionPerDate ==
    ( /\ ObserverRuns
      /\ OneSectionPerDate(ReadOrEmpty(observations_file))
      /\ \A k \in DOMAIN ocalls' : OneSectionPerDate(ocalls'[k].out.text) )
    => OneSectionPerDate(ReadOrEmpty(observations_file'))

\* C28: after any sequence of Observer writes (live overwrite, live append,
\* backfill append) and retention trims, the observations document holds at
\* most one Date Section per calendar date.  The oracle outputs are taken to
\* have one section per date themselves, so that a second section of a date
\* is the doing of the write.
C28_OneSectionPerDate == [][WriteKeepsOneSectionPerDate]_vars

\* the same of the document in every state, whatever the oracle returned
C28_DocumentOneSectionPerDate == OneSectionPerDate(ReadOrEmpty(observations_file))

\* the retention trim does not make a second section of a date
TrimKeepsOneSectionPerDate ==
    (pc = "written" /\ pc' = "trimmed" /\ OneSectionPerDate(ReadOrEmpty(observations_file)))
        => OneSectionPerDate(ReadOrEmpty(observations_file'))
C28_TrimHalf == [][TrimKeepsOneSectionPerDate]_vars

\* the cursor file holds text that is not a JSON document
MalformedCursor == cursor_file.exists /\ ~WellFormed(cursor_file.text)

\* a run that finds a malformed cursor file loads the empty cursor and goes
\* on from the start of the transcript: it fails only if the oracle does, and
\* it calls the oracle when the whole transcript reaches the threshold
MalformedCursorAsAbsent ==
    (ObserverRuns /\ MalformedCursor) =>
        /\ load_cursor(cursor_file) = [ok |-> TRUE, dict |-> EmptyDict]
        /\ oresult'.kind = "raised" => \E k \in DOMAIN ocalls' : ocalls'[k].out.raised
        /\ (entry' = "observe_claude_transcript"
              /\ Len(parse_claude(transcripts.claude, dict_get(EmptyDict, ClaudeKey))) >= min_messages)
           => ocalls' # <<>>

\* C29: a malformed cursor file (corrupt JSON) is treated as absent: loading
\* it yields the empty cursor and the Observer run proceeds, reprocessing
\* the transcripts from the start, instead of failing.
C29_MalformedCursorAsAbsent == [][MalformedCursorAsAbsent]_vars

\* what the code does: the run fails before any oracle call and changes
\* nothing
MalformedCursorFails ==
    (ObserverRuns /\ MalformedCursor) =>
        /\ ~load_cursor(cursor_file).ok
        /\ oresult'.kind = "raised"
        /\ ocalls' = <<>>
        /\ UNCHANGED <<observations_file, cursor_file, index>>
C29_MalformedCursorFails == [][MalformedCursorFails]_vars

\* a run has failed on a malformed cursor file with a transcript that
\* reaches the threshold
C29_Failed ==
    /\ MalformedCursor
    /\ entry = "observe_claude_transcript"
    /\ oresult.kind = "raised" /\ ocalls = <<>>
    /\ Len(parse_claude(transcripts.claude, dict_get(EmptyDict, ClaudeKey))) >= min_messages

\* the index rebuild fails: the qmd program is not there
RebuildFails == search_backend = "qmd"

\* the Reflector's rebuild step: the run ends written with the result it had,
\* and both documents keep what the write and the trim left
ReflectorRebuildFailureDiscarded ==
    (pc = "trimmed" /\ pc' = "idle" /\ RebuildFails) =>
        /\ outcome' = "written"
        /\ result.some /\ result' = result
        /\ UNCHANGED <<observations_file, reflections_file, index>>
        /\ reflections_file.text = rstrip(result.text) \o <<NL>>

\* the Observer's write ends with the rebuild; the document is there after
\* it, with the earlier content followed by the output or with an output that
\* names the current day
ObserverRebuildFailureDiscarded ==
    (writes' = writes + 1 /\ reflections_file' = reflections_file /\ RebuildFails) =>
        /\ observations_file'.exists
        /\ IsPrefix(rstrip(ReadOrEmpty(observations_file)), observations_file'.text)
              \/ \E i \in 1..Len(observations_file'.text) : observations_file'.text[i] = D(today)
        /\ index' = index

\* C22: a failure of the index rebuild after an Observer or Reflector write
\* is caught and discarded: the run still returns its result, and the
\* observations and reflections documents written before the rebuild keep
\* their new content.
C22_RebuildFailureDiscarded ==
    /\ [][ReflectorRebuildFailureDiscarded]_vars
    /\ [][ObserverRebuildFailureDiscarded]_vars

\* C22 witness: a Reflector run has ended written although the rebuild
\* failed: the reflections document holds its result and the index was never
\* built
C22_Witness ==
    /\ RebuildFails
    /\ pc = "idle" /\ outcome = "written"
    /\ result.some
    /\ reflections_file.exists /\ reflections_file.text = rstrip(result.text) \o <<NL>>
    /\ observations_file.exists
    /\ ~index.built

\* the Observer entry points: a live write whose rebuild fails still returns
\* the oracle output, and the document holds what _write_observations wrote
ObserverRunRebuildFailureDiscarded ==
    (LiveWrites /\ RebuildFails) =>
        /\ entry' = "observe_claude_transcript" => oresult' = RetText(ocalls'[1].out.text)
        /\ oresult'.kind # "raised"
        /\ observations_file' = _write_observations(ocalls'[1].out.text, observations_file, today)
        /\ index' = index
C22_ObserverRun == [][ObserverRunRebuildFailureDiscarded]_vars

\* a live Observer run has returned its output after a failed rebuild
C22_ObserverRunWitness ==
    /\ RebuildFails
    /\ entry = "observe_claude_transcript" /\ ~odry
    /\ Len(ReturnedCalls(ocalls)) = 1
    /\ oresult = RetText(ocalls[1].out.text)
    /\ observations_file.exists
    /\ ~index.built

\* the chunks, put end to end, are the messages; each holds between one and
\* chunk_size messages and each but the last exactly chunk_size
ChunksCoverMessages(messages, chunk_size) ==
    \A cs \in {_chunk_messages(messages, chunk_size)} :
        /\ Concat(cs) = messages
        /\ \A i \in DOMAIN cs : 1 <= Len(cs[i]) /\ Len(cs[i]) <= chunk_size
        /\ \A i \in DOMAIN cs : i < Len(cs) => Len(cs[i]) = chunk_size
        /\ messages = <<>> => cs = <<>>

\* the messages of the Claude transcript, from its start and after the
\* persisted cursor
AllClaudeMessages == parse_claude(transcripts.claude, dict_get(EmptyDict, ClaudeKey))

\* C33: _chunk_messages(messages, k) returns consecutive chunks whose
\* concatenation is the input in order; every chunk has at most k messages,
\* every chunk but possibly the last exactly k, no chunk is empty, and an
\* empty input gives an empty list.
C33_ChunksCoverMessages ==
    \A chunk_size \in ChunkSizes :
        /\ ChunksCoverMessages(AllClaudeMessages, chunk_size)
        /\ ChunksCoverMessages(NewClaudeMessages, chunk_size)

\* C33 witness: a dry backfill run has made two oracle calls for a transcript
\* of five messages that chunk_size 2 splits into chunks of 2, 2 and 1
C33_Witness ==
    /\ entry = BackfillEntry /\ odry
    /\ Len(ocalls) = 2
    /\ Len(NewClaudeMessages) = 5
    /\ Len(_chunk_messages(NewClaudeMessages, 2)) = 3
    /\ Len(_chunk_messages(NewClaudeMessages, 2)[3]) = 1

\* no message: no chunk
C33_Empty ==
    /\ transcripts.claude # <<>>
    /\ AllClaudeMessages = <<>>
    /\ _chunk_messages(AllClaudeMessages, 2) = <<>>

\* the metadata lines the stamp writes
NewUpdated == U(StampNow)
IsNewReflected(tok) == tok \in {R(StampDay), RT(StampDay)}

\* which metadata lines the oracle output has
HasNeither == UpdatedMatches(stIn) = {} /\ ReflectedMatches(stIn) = {}
HasOnlyUpdated == UpdatedMatches(stIn) # {} /\ ReflectedMatches(stIn) = {}
HasBoth == UpdatedMatches(stIn) # {} /\ ReflectedMatches(stIn) # {}

\* neither line, a heading on the first line: "Last updated" is the line
\* directly after the heading line and "Last reflected" the one after it
BothDirectlyAfterHeading ==
    (stDone /\ HasNeither /\ TitleMatch(stIn)) =>
        \A e \in {TitleEnd(stIn)} :
            /\ Len(stOut) >= e + 4
            /\ SubSeq(stOut, 1, e) = SubSeq(stIn, 1, e)
            /\ stOut[e + 1] = NewUpdated /\ stOut[e + 2] = NL
            /\ IsNewReflected(stOut[e + 3]) /\ stOut[e + 4] = NL

\* neither line, a heading on the first line: an empty line and the two
\* lines are put between the heading line and what followed it
BothAfterHeadingAndBlankLine ==
    (stDone /\ HasNeither /\ TitleMatch(stIn)) =>
        \A e \in {TitleEnd(stIn)} :
            \E r \in {R(StampDay), RT(StampDay)} :
                stOut = SubSeq(stIn, 1, e) \o <<NL, NewUpdated, NL, r, NL>>
                            \o SubSeq(stIn, e + 1, Len(stIn))

\* only "Last updated": the first such line carries the new value and
\* "Last reflected" is the line directly after it
ReflectedDirectlyAfterUpdated ==
    (stDone /\ HasOnlyUpdated) =>
        \A i \in {Min(UpdatedMatches(stIn))} :
            \E r \in {R(StampDay), RT(StampDay)} :
                stOut = SubSeq(stIn, 1, i - 1) \o <<NewUpdated, NL, r>>
                            \o SubSeq(stIn, i + 1, Len(stIn))

\* both lines: the first of each is replaced where it stands and nothing else
\* changes
BothReplacedInPlace ==
    (stDone /\ HasBoth) =>
        \A i \in {Min(UpdatedMatches(stIn))}, j \in {Min(ReflectedMatches(stIn))} :
            /\ Len(stOut) = Len(stIn)
            /\ stOut[i] = NewUpdated /\ stOut[i] # stIn[i]
            /\ IsNewReflected(stOut[j]) /\ stOut[j] # stIn[j]
            /\ \A k \in 1..Len(stIn) : k \notin {i, j} => stOut[k] = stIn[k]

C32_OnlyUpdated ==
    /\ stDone /\ HasOnlyUpdated
    /\ Min(UpdatedMatches(stIn)) > 1
    /\ \E i \in UpdatedMatches(stOut) : i + 2 \in ReflectedMatches(stOut)

\* both lines were replaced, "Last reflected" standing before "Last updated"
C32_Both ==
    /\ stDone /\ HasBoth
    /\ Min(ReflectedMatches(stIn)) < Min(UpdatedMatches(stIn))
    /\ stOut # stIn

C40_OnlyUpdated == stAgain.some /\ HasOnlyUpdated /\ stOut # stIn

\* the Codex cursor as stored, 0 when there is none, and the parsed messages
StoredCodexCursor ==
    LET got == dict_get(load_cursor(cursor_file).dict, CodexKey)
    IN  IF got.some THEN got.v ELSE 0
CodexMessageCount == Len(parse_codex(transcripts.codex))

\* the records with a role among the first k lines of the session
RolesInFirst(k) ==
    Cardinality({i \in 1..Len(transcripts.codex) :
                    i <= k /\ transcripts.codex[i] \in {"msg", "blank"}})

\* a run of observe_all_codex on a session that has messages
CodexRuns ==
    /\ ObserverRuns
    /\ entry' = "observe_all_codex"
    /\ load_cursor(cursor_file).ok
    /\ CodexMessageCount > 0

\* the index the run starts at
CodexStart == AfterIndex(transcripts.codex, dict_get(load_cursor(cursor_file).dict, CodexKey))

LegacyCursorMigrated ==
    CodexRuns =>
        \A n \in {CodexMessageCount}, stored \in {StoredCodexCursor}, start \in {CodexStart} :
            /\ start \in 0..n
            /\ stored <= n => start = stored
            /\ stored > n =>
                  \A m \in {RolesInFirst(stored)} :
                      /\ start = IF m < n THEN m ELSE 0
                      /\ start < n
            /\ \A k \in DOMAIN ocalls' : ocalls'[k].messages = n - start
            /\ n - start >= min_messages => Len(ocalls') = 1
            /\ n - start < min_messages => ocalls' = <<>>

\* C34: when the stored Codex cursor exceeds the number of parsed messages
\* it is converted from a line offset to a message count, and the converted
\* value is used only if it lies in [0, number of messages); otherwise the
\* run starts at index 0.  The start index is always within 0..number of
\* messages, and a cursor that exceeds it leads to reprocessing, never to
\* skipping every message.
C34_LegacyCursorMigrated == [][LegacyCursorMigrated]_vars

\* C34 witness: a dry run on a session whose cursor, a line offset, exceeded
\* the number of messages; the converted value was used and the messages
\* after it were given to the oracle
C34_Witness ==
    /\ entry = "observe_all_codex" /\ odry
    /\ StoredCodexCursor > CodexMessageCount
    /\ RolesInFirst(StoredCodexCursor) > 0
    /\ RolesInFirst(StoredCodexCursor) < CodexMessageCount
    /\ Len(ocalls) = 1
    /\ ocalls[1].messages = CodexMessageCount - RolesInFirst(StoredCodexCursor)

\* the converted value was out of range and the whole session was given to
\* the oracle
C34_Restarted ==
    /\ entry = "observe_all_codex" /\ odry
    /\ StoredCodexCursor > CodexMessageCount
    /\ RolesInFirst(StoredCodexCursor) >= CodexMessageCount
    /\ Len(ocalls) = 1
    /\ ocalls[1].messages = CodexMessageCount

\* the stored Codex cursor is a message count of the session
CodexCursorWithinSession == load_cursor(cursor_file).ok => StoredCodexCursor <= CodexMessageCount

\* a run of observe_all_codex has returned a non-empty output
CodexSucceeds == oresult'.kind = "list" /\ oresult'.n = 1

\* the oracle input of a run is the messages from the stored cursor on; after
\* a successful run that is not dry the cursor is the number of parsed
\* messages; a run on a session with no message after the cursor makes no
\* call
CodexRunFromCursor ==
    (ObserverRuns /\ entry' = "observe_all_codex" /\ load_cursor(cursor_file).ok) =>
        \A n \in {CodexMessageCount}, stored \in {StoredCodexCursor} :
            /\ \A k \in DOMAIN ocalls' :
                  /\ stored < n
                  /\ ocalls'[k].first = parse_codex(transcripts.codex)[stored + 1]
                  /\ ocalls'[k].messages = n - stored
            /\ Len(ocalls') <= 1
            /\ (CodexSucceeds /\ ~odry') =>
                  /\ ocalls' # <<>>
                  /\ load_cursor(cursor_file').ok
                  /\ dict_get(load_cursor(cursor_file').dict, CodexKey) = [some |-> TRUE, v |-> n]
            /\ stored = n => ocalls' = <<>>

\* the Codex cursor moves in no other step: not in a dry run, not in a run
\* that failed or returned nothing, not in a run of another entry point
CodexCursorMovesOnSuccess ==
    (load_cursor(cursor_file).ok /\ load_cursor(cursor_file').ok
        /\ dict_get(load_cursor(cursor_file').dict, CodexKey)
              # dict_get(load_cursor(cursor_file).dict, CodexKey))
    => (ObserverRuns /\ entry' = "observe_all_codex" /\ CodexSucceeds /\ ~odry')

\* C35: for an append-only Codex session, across any sequence of
\* observe_all_codex runs, the oracle input of a run is exactly the messages
\* at index >= the stored cursor, and after a successful run that is not dry
\* the cursor equals the number of parsed messages; the cursor moves in no
\* other way, so each message is in the oracle input of exactly one such
\* run, and a rerun on an unchanged session makes no oracle call.
C35_CodexCursorExactlyOnce ==
    /\ []CodexCursorWithinSession
    /\ [][CodexRunFromCursor]_vars
    /\ [][CodexCursorMovesOnSuccess]_vars

\* C35 witness: a second successful run has been given only the messages
\* that came after the first one, and the cursor is at the end of the session
C35_Witness ==
    /\ entry = "observe_all_codex" /\ ~odry
    /\ oresult.kind = "list" /\ oresult.n = 1
    /\ Len(ocalls) = 1
    /\ ocalls[1].messages < CodexMessageCount
    /\ StoredCodexCursor = CodexMessageCount

\* a rerun on the unchanged session has made no call
C35_Rerun ==
    /\ entry = "observe_all_codex"
    /\ ocalls = <<>>
    /\ CodexMessageCount >= min_messages
    /\ StoredCodexCursor = CodexMessageCount

\* the number of messages in the inputs of the calls
RECURSIVE MessagesIn(_)
MessagesIn(cs) == IF cs = <<>> THEN 0 ELSE Head(cs).messages + MessagesIn(Tail(cs))

\* a backfill run that moves the cursor has had every message after the old
\* cursor in the input of an oracle call that returned
BackfillCursorAfterObserved ==
    (ObserverRuns /\ entry' = BackfillEntry /\ cursor_file' # cursor_file) =>
        \A messages \in {NewClaudeMessages} :
            /\ MessagesIn(ReturnedCalls(ocalls')) = Len(messages)
            /\ messages # <<>> => ocalls'[1].first = Head(messages)

\* C36: backfill never advances the cursor past an unobserved message: in
\* observe_claude_transcript_backfill every message the parser returns after
\* the old cursor has been part of a successful oracle call before the cursor
\* is moved to the last message of the transcript, the messages of a last
\* chunk shorter than min_messages included.
C36_BackfillCursorAfterObserved == [][BackfillCursorAfterObserved]_vars

\* a backfill run has moved the cursor to the end of a transcript of three
\* messages, the last of them in no oracle input
C36_TrailingChunkSkipped ==
    /\ entry = BackfillEntry /\ ~odry
    /\ Len(AllClaudeMessages) = 3
    /\ Len(ocalls) = 1 /\ ocalls[1].messages = 2 /\ ~ocalls[1].out.raised
    /\ NewClaudeMessages = <<>>

\* a run of observe_claude_transcript: the messages of its oracle input are
\* the new ones at its parse
ClaudeRuns == ObserverRuns /\ entry' = "observe_claude_transcript"

\* the messages the transcript has after the run that the parse of the run
\* did not return: all of them are new messages for the next run
GainedStillNew ==
    ClaudeRuns =>
        \A before \in {AllClaudeMessages}, after \in {AllClaudeMessages'},
           next \in {NewClaudeMessages'} :
            \A i \in DOMAIN after :
                i > Len(before) => \E j \in DOMAIN next : next[j] = after[i]

\* C38: observe_claude_transcript never advances the cursor past a message
\* that was not in the oracle input of the run: when the transcript gains
\* messages between the parse and the cursor update, while the oracle call
\* is in flight, the next run's parse still returns them.
C38_GainedStillNew == [][GainedStillNew]_vars

\* a message appended while the oracle call was in flight is behind the
\* cursor after the run
C38_GainedSkipped ==
    /\ entry = "observe_claude_transcript" /\ ~odry
    /\ Len(ocalls) = 1 /\ ~ocalls[1].out.raised
    /\ ocalls[1].messages < Len(AllClaudeMessages)
    /\ ocalls[1].first = Head(AllClaudeMessages)
    /\ NewClaudeMessages = <<>>

\* a backfill run has failed at a chunk after the outputs of earlier chunks
\* were appended
BackfillInterrupted ==
    /\ entry = BackfillEntry /\ ~odry
    /\ oresult.kind = "raised"
    /\ ReturnedCalls(ocalls) # <<>>

\* the next backfill run sends none of the messages of the chunks that were
\* written and leaves what they appended once in the document
ResumeSendsNothingTwice ==
    (BackfillInterrupted /\ ObserverRuns /\ entry' = BackfillEntry /\ ~odry') =>
        /\ \A k \in DOMAIN ocalls' :
              ocalls'[k].first >= ocalls[1].first + MessagesIn(ReturnedCalls(ocalls))
        /\ \A old \in {observations_file.text}, new \in {ReadOrEmpty(observations_file')} :
              Len(Solid(new)) - Len(Solid(old))
                  = Len(SolidOutputs(ReturnedCalls(ocalls')))
        /\ \A k \in DOMAIN ocalls' : ocalls'[k].first # ocalls[1].first

\* C39: resuming an interrupted backfill does not duplicate observations: if
\* observe_claude_transcript_backfill fails at chunk k after the outputs of
\* chunks 1..k-1 were appended to the observations document, the next run
\* does not send the messages of chunks 1..k-1 to the oracle again and does
\* not append their observations a second time.
C39_ResumeSendsNothingTwice == [][ResumeSendsNothingTwice]_vars

\* the run after an interrupted one has sent the first chunk again and the
\* document holds two sections for it
C39_SentTwice ==
    /\ entry = BackfillEntry /\ ~odry
    /\ Len(ocalls) = 2 /\ Len(ReturnedCalls(ocalls)) = 2
    /\ ocalls[1].first = Head(AllClaudeMessages)
    /\ Cardinality(SplitPoints(observations_file.text)) = 3

----------------------------------------------------------------------------
(* The backfill command, cli.py:90-201 *)

\* the transcripts the command can find: two Claude transcripts and the
\* Codex session, by the name of their field in transcripts
OtherKey == "other.jsonl"
KeyOf(path) ==
    IF path = "claude" THEN ClaudeKey ELSE IF path = "other" THEN OtherKey ELSE CodexKey
SourceOf(path) == IF path = "codex" THEN "codex" ELSE "claude"

(* Bounds of the command model *)
\* transcript entries and command runs in one behaviour
MaxBackfillOps == 5

\* the --limit and --reflect-every options: no limit and a limit of one
\* transcript; a Reflector run after every transcript and the default of one
\* every 20.  --source and --chunk-size have their defaults, "all" and 200
\* (cli.py:84 and 88).
DefaultChunkSize == 200
Limits == {0, 1}
ReflectEvery == {1, 20}

\* claude.py:138-148: the Claude transcripts oldest first; "other" names the
\* older one
ClaudeOldestFirst == <<"other", "claude">>

\* cli.py:107-117 with source = "all"
AllTranscripts == ClaudeOldestFirst \o <<"codex">>

\* run_reflector(config) as the command calls it (cli.py:181 and 193),
\* reflect.py:32-94 with dry_run = False: how many compress() calls it makes
ReflectorCalls(obsf, reff) ==
    LET raw == ReadOrEmpty(obsf)
        refl == ReadOrEmpty(reff)
        obs == _filter_new_observations(raw, _parse_last_reflected(refl))
    IN  IF NothingToReflect(raw, obs) THEN 0
        ELSE IF FitsSinglePass(refl, obs) THEN 1
        ELSE Len(_chunk_observations(obs))

\* and the files it leaves; outs[k] is how the k-th compress() call ends.  An
\* exception leaves the files as they are and the command catches it
\* (cli.py:183 and 198).
ReflectorRun(obsf, reff, outs) ==
    LET raw == ReadOrEmpty(obsf)
        n == ReflectorCalls(obsf, reff)
        latest == _extract_latest_observation_date(raw)
        reflected == IF latest.some THEN [d |-> latest.d, time |-> FALSE]
                                    ELSE [d |-> today, time |-> TRUE]
    IN  IF n = 0 \/ \E k \in 1..n : outs[k].raised
        THEN [obs |-> obsf, refl |-> reff, written |-> FALSE]
        ELSE [obs |-> _trim_old_observations(obsf, today),
              refl |-> File(rstrip(_stamp_timestamps(outs[n].text, today, reflected)) \o <<NL>>),
              written |-> TRUE]

\* how a compress() call of that Reflector run ends: with a reflections
\* document, or with an exception
ReflectorOutcomes == {Returned(<<T, NL, NL, S(1), NL, B(20), NL>>), OracleRaised}

\* transcript entries and command runs so far
BackfillOps == command.n + Len(transcripts.claude) + Len(transcripts.other)

\* what the command leaves alone
commandFrame == <<today, search_backend, reflectorLocals, writes, min_messages,
                  cursorVars, chunkVars, stampVars, trimVars, folded>>

\* the agent appends an entry to one of the Claude transcripts, between two
\* runs of the command
BackfillGrows ==
    /\ command.pc \in {"idle", "done"}
    /\ BackfillOps < MaxBackfillOps
    /\ \E path \in {"claude", "other"}, kind \in ClaudeKinds :
          transcripts' = [transcripts EXCEPT ![path] = Append(@, kind)]
    /\ UNCHANGED <<observations_file, reflections_file, cursor_file, index, oruns, command,
                   entry, odry, ocalls, oresult, commandFrame>>

\* the command has returned: its locals are gone; how it ended, the
\* transcripts whose last processing raised and the number of runs remain
Returns(c, end) ==
    [CommandIdle EXCEPT !.pc = "done", !.end = end, !.failed = c.failed, !.n = c.n]

\* cli.py:146-149 and 190: where the command goes after an iteration of
\* the loop: the next transcript, or past the loop when there is none or the
\* limit is reached, to the final Reflector run when a transcript was
\* processed
After(c) ==
    IF c.i <= Len(c.all) /\ ~(c.limit # 0 /\ c.processed >= c.limit) THEN [c EXCEPT !.pc = "loop"]
    ELSE IF c.processed > 0 THEN [c EXCEPT !.pc = "final"]
    ELSE Returns(c, "complete")

\* cli.py:186-187: the cursor is loaded again after each transcript, outside
\* the try
Reloaded(c, curf) ==
    LET cursor == load_cursor(curf)
    IN  IF ~cursor.ok THEN Returns(c, "raised")
        ELSE After([c EXCEPT !.i = @ + 1, !.cursor = cursor.dict])

\* cli.py:105-144: the command up to the loop
BackfillBegin ==
    /\ command.pc \in {"idle", "done"}
    /\ BackfillOps < MaxBackfillOps
    /\ \E dry \in BOOLEAN, limit \in Limits, reflect_every \in ReflectEvery :
          LET all_transcripts == AllTranscripts
              cursor == load_cursor(cursor_file)
              pending == Cardinality({k \in DOMAIN all_transcripts :
                                         KeyOf(all_transcripts[k]) \notin Keys(cursor.dict)})
              c == [pc |-> "loop", all |-> all_transcripts, i |-> 1, cursor |-> cursor.dict,
                    pending |-> pending, processed |-> 0, errors |-> 0, limit |-> limit,
                    reflect_every |-> reflect_every, chunk_size |-> DefaultChunkSize,
                    handled |-> {}, skipped |-> {}, before |-> command.failed,
                    failed |-> command.failed, end |-> "", n |-> command.n + 1]
          IN  command' = IF ~cursor.ok THEN Returns(c, "raised")
                         ELSE IF dry THEN Returns(c, "dry")
                         ELSE IF pending = 0 THEN Returns(c, "nothing")
                         ELSE c
    /\ ResultTaken
    /\ UNCHANGED <<observations_file, reflections_file, cursor_file, transcripts, index, oruns,
                   commandFrame>>

\* the chunks of the new messages of a transcript the command processes;
\* nothing is read of a Codex session (cli.py:163-166)
ChunksOf(path, chunk_size) ==
    IF SourceOf(path) = "claude"
    THEN _chunk_messages(parse_claude(transcripts[path],
                                      dict_get(load_cursor(cursor_file).dict, KeyOf(path))),
                         chunk_size)
    ELSE <<>>

\* one iteration of the loop, cli.py:146-187, up to the periodic Reflector
\* run when one is due.  In the mutant an exception of the Observer call ends
\* the command.
BackfillTranscript_mut ==
    /\ command.pc = "loop"
    /\ LET c == command
           path == c.all[c.i]
       IN  IF KeyOf(path) \in Keys(c.cursor)
           THEN /\ command' = After([c EXCEPT !.i = @ + 1, !.skipped = @ \cup {path}])
                /\ ResultTaken
                /\ UNCHANGED <<observations_file, cursor_file, index, oruns>>
           ELSE \E outs \in [1..Len(ChunksOf(path, c.chunk_size)) -> ReplayOutcomes(today)] :
                  LET eff == IF SourceOf(path) = "claude"
                             THEN observe_claude_transcript_backfill_path(
                                      transcripts[path], KeyOf(path), FALSE, c.chunk_size, outs)
                             ELSE Effect(RetNone, <<>>, observations_file, cursor_file, FALSE)
                      raised == eff.ret.kind = "raised"
                      c1 == [c EXCEPT !.processed = @ + 1,
                                      !.errors = IF raised THEN @ + 1 ELSE @,
                                      !.handled = @ \cup {path},
                                      !.failed = IF raised THEN @ \cup {path} ELSE @ \ {path}]
                  IN  /\ entry' = IF SourceOf(path) = "claude" THEN BackfillEntry ELSE "none"
                      /\ odry' = FALSE
                      /\ ocalls' = eff.calls
                      /\ oresult' = eff.ret
                      /\ observations_file' = eff.obs
                      /\ cursor_file' = eff.cursor
                      /\ index' = IF eff.reindexed THEN Reindexed(eff.obs, reflections_file)
                                                   ELSE index
                      /\ oruns' = IF SourceOf(path) = "claude" THEN oruns + 1 ELSE oruns
                      /\ command' = IF raised THEN Returns(c1, "raised")
                                    ELSE IF c1.processed % c.reflect_every = 0
                                    THEN [c1 EXCEPT !.pc = "periodic"]
                                    ELSE Reloaded(c1, eff.cursor)
    /\ UNCHANGED <<reflections_file, transcripts, commandFrame>>
BackfillTranscript ==
    /\ command.pc = "loop"
    /\ LET c == command
           path == c.all[c.i]
       IN  IF KeyOf(path) \in Keys(c.cursor)
           THEN /\ command' = After([c EXCEPT !.i = @ + 1, !.skipped = @ \cup {path}])
                /\ ResultTaken
                /\ UNCHANGED <<observations_file, cursor_file, index, oruns>>
           ELSE \E outs \in [1..Len(ChunksOf(path, c.chunk_size)) -> ReplayOutcomes(today)] :
                  LET eff == IF SourceOf(path) = "claude"
                             THEN observe_claude_transcript_backfill_path(
                                      transcripts[path], KeyOf(path), FALSE, c.chunk_size, outs)
                             ELSE Effect(RetNone, <<>>, observations_file, cursor_file, FALSE)
                      raised == eff.ret.kind = "raised"
                      c1 == [c EXCEPT !.processed = @ + 1,
                                      !.errors = IF raised THEN @ + 1 ELSE @,
                                      !.handled = @ \cup {path},
                                      !.failed = IF raised THEN @ \cup {path} ELSE @ \ {path}]
                  IN  /\ entry' = IF SourceOf(path) = "claude" THEN BackfillEntry ELSE "none"
                      /\ odry' = FALSE
                      /\ ocalls' = eff.calls
                      /\ oresult' = eff.ret
                      /\ observations_file' = eff.obs
                      /\ cursor_file' = eff.cursor
                      /\ index' = IF eff.reindexed THEN Reindexed(eff.obs, reflections_file)
                                                   ELSE index
                      /\ oruns' = IF SourceOf(path) = "claude" THEN oruns + 1 ELSE oruns
                      /\ command' = IF c1.processed % c.reflect_every = 0
                                    THEN [c1 EXCEPT !.pc = "periodic"]
                                    ELSE Reloaded(c1, eff.cursor)
    /\ UNCHANGED <<reflections_file, transcripts, commandFrame>>

\* the Reflector run of the command: the periodic one of cli.py:178-184,
\* followed by the reload of the cursor, or the final one of cli.py:190-199
BackfillReflect ==
    /\ command.pc \in {"periodic", "final"}
    /\ \E outs \in [1..ReflectorCalls(observations_file, reflections_file) -> ReflectorOutcomes] :
          LET r == ReflectorRun(observations_file, reflections_file, outs)
          IN  /\ observations_file' = r.obs
              /\ reflections_file' = r.refl
              /\ index' = IF r.written THEN Reindexed(r.obs, r.refl) ELSE index
    /\ command' = IF command.pc = "periodic" THEN Reloaded(command, cursor_file)
                  ELSE Returns(command, "complete")
    /\ ResultTaken
    /\ UNCHANGED <<cursor_file, transcripts, oruns, commandFrame>>

BackfillNext == BackfillGrows \/ BackfillBegin \/ BackfillTranscript \/ BackfillReflect
SpecBackfill == ObserveInit /\ [][BackfillNext]_vars

\* the loop of the command is at this transcript and goes through it
Iterates(path) ==
    /\ command.pc = "loop"
    /\ command.all[command.i] = path
    /\ command' # command

\* the cursor file holds an entry for the transcript
HasCursorEntry(path) == KeyOf(path) \in Keys(load_cursor(cursor_file).dict)

\* the loop is over after this iteration: it was at the last transcript, or
\* the limit is reached
LoopEnds ==
    \/ command.i = Len(command.all)
    \/ command.limit # 0 /\ command'.processed >= command.limit

\* a transcript with a cursor entry is passed over: no Observer call, no
\* oracle call, no write
CursorEntrySkipped ==
    \A path \in {"claude", "other", "codex"} :
        (Iterates(path) /\ HasCursorEntry(path)) =>
            /\ entry' = "none" /\ ocalls' = <<>>
            /\ command'.processed = command.processed
            /\ UNCHANGED <<observations_file, cursor_file, oruns>>

\* a transcript whose processing raised is counted, its cursor state stays,
\* and the loop goes on to the next transcript
RaisedCounted ==
    \A path \in {"claude", "other", "codex"} :
        (Iterates(path) /\ oresult'.kind = "raised") =>
            /\ command'.errors = command.errors + 1
            /\ cursor_file' = cursor_file /\ ~HasCursorEntry(path)
            /\ command'.pc \in {"loop", "periodic", "final"}
            /\ command'.pc = "loop" => command'.i = command.i + 1
            /\ command'.pc = "final" => LoopEnds

\* the periodic Reflector run, whatever its end, goes on to the next
\* transcript too
PeriodicGoesOn ==
    (command.pc = "periodic" /\ command' # command) =>
        /\ command'.errors = command.errors
        /\ command'.pc \in {"loop", "final"}
        /\ command'.pc = "loop" => command'.i = command.i + 1
        /\ command'.pc = "final" => LoopEnds

\* a transcript whose last processing raised is processed when the loop of a
\* later run comes to it
ProcessedAgain ==
    \A path \in {"claude", "other", "codex"} :
        (Iterates(path) /\ path \in command.before) =>
            /\ entry' = BackfillEntry
            /\ path \in command'.handled

\* and the loop of a run without limit comes to it
FailedHandled ==
    (command.pc = "final" /\ command.limit = 0) => command.before \subseteq command.handled

C31_ErrorCounted ==
    /\ command.errors = 1
    /\ "other" \in command.failed
    /\ "claude" \in command.handled /\ "claude" \notin command.failed
    /\ HasCursorEntry("claude") /\ ~HasCursorEntry("other")

----------------------------------------------------------------------------
(* The Reflector with a record of what it has folded *)

\* a text the oracle may return in backfill mode for a transcript of a day
\* the trim no longer keeps
OldBackfillOutputs(t) == { <<D(t - observation_retention_days - 1), NL, NL, B(20)>> }

\* run_observer_backfill appending such a section, observe.py:214-220
ObserverBackfillOldWrite ==
    /\ Yielding
    /\ Ops < MaxOps
    /\ \E out \in OldBackfillOutputs(today) :
          /\ observations_file' = _append_observations(out, observations_file)
    /\ writes' = writes + 1
    /\ UNCHANGED <<today, reflections_file, search_backend, index, reflectorLocals, chunkVars, stampVars, trimVars, folded, cursorVars, observerVars>>

\* reflect.py:91, as Trim.  The run has written its reflections: the Date
\* Sections it sent to the oracle are recorded as folded.
TrimRecorded ==
    /\ pc = "written"
    /\ observations_file' = _trim_old_observations(observations_file, today)
    /\ pc' = "trimmed"
    /\ folded' = folded \cup FoldedBy(calls)
    /\ UNCHANGED <<today, reflections_file, search_backend, index, writes,
                   dry_run, raw_observations, reflections, observations, chunks,
                   mode, running_reflections, calls, result, runs, outcome,
                   chunkVars, stampVars, trimVars, cursorVars, observerVars>>

RetentionNext ==
    \/ Tick
    \/ Install
    \/ ObserverLiveWrite
    \/ ObserverBackfillWrite
    \/ ObserverBackfillOldWrite
    \/ ReflectBegin
    \/ OracleReturn
    \/ OracleRaise
    \/ Stamp
    \/ DryReturn
    \/ WriteReflections
    \/ TrimRecorded
    \/ Reindex

SpecRetention == Init /\ [][RetentionNext]_vars

\* the Retention Trimmer removes only Date Sections that were in the oracle
\* input of a Reflector run that wrote its reflections, this run or an
\* earlier one
TrimRemovesOnlyFolded ==
    (pc = "written" /\ pc' = "trimmed") =>
        (DateSectionsOf(ReadOrEmpty(observations_file))
            \ DateSectionsOf(ReadOrEmpty(observations_file'))) \subseteq folded'

\* C37: every Date Section that the Retention Trimmer removes was part of
\* the oracle input of a successful Reflector pass (that pass or an earlier
\* one): no observation is deleted before it has been folded into the
\* reflections, for any interleaving of Observer writes (including appends of
\* sections dated before the current "Last reflected" date) and Reflector
\* runs.
C37_TrimRemovesOnlyFolded == [][TrimRemovesOnlyFolded]_vars

\* the same for the sections that were in the file when the run read it: no
\* write between the read and the trim is needed for a section to be lost
ReadSectionsRemovedOnlyFolded ==
    (pc = "written" /\ pc' = "trimmed") =>
        ((DateSectionsOf(ReadOrEmpty(observations_file)) \cap DateSectionsOf(raw_observations))
            \ DateSectionsOf(ReadOrEmpty(observations_file'))) \subseteq folded'

C37_ReadSectionsRemovedOnlyFolded == [][ReadSectionsRemovedOnlyFolded]_vars
====
